---- MODULE Spec2Model ----
(***************************************************************************)
(* Verification model of the geoalg-notebooks data structures.            *)
(*                                                                         *)
(* Part 1: the AA-tree of notebooks/modules/data_structures.py             *)
(* (Node, BinaryTree, BinaryTreeDict).                                     *)
(*                                                                         *)
(* Python's Optional[X] is modelled as a sequence of length at most one:   *)
(* None is <<>> and a present x is <<x>>.  Reading through a None          *)
(* reference (Get(None)) is an evaluation error, as the AttributeError     *)
(* it stands for.  A Node object is a record of its five fields; a node    *)
(* exclusively owns its children, so the in-place field swaps of the code  *)
(* are written as successive record updates, one per source line.          *)
(*                                                                         *)
(* Part 2: the polygon of notebooks/modules/geometry/objects.py            *)
(* (DoublyConnectedSimplePolygon, Vertex, HalfEdge) with the Point and     *)
(* LineSegment operations of geometry/core.py it calls.  Vertices and      *)
(* half-edges are shared objects: each is a number, its fields are read    *)
(* through the polygon value that holds all objects (specification         *)
(* PolySpec).                                                              *)
(*                                                                         *)
(* Part 3: DoublyConnectedSimplePolygon.try_from_unordered_points, its     *)
(* 2-opt loop taken one loop test and one loop body at a time              *)
(* (specifications TwoOptSpec and TwoOptFairSpec).                         *)
(*                                                                         *)
(* Part 4: the PointSequence of geometry/objects.py with the animation     *)
(* events of geometry/core.py (specification SeqSpec), the sum of two      *)
(* sequences (AddSpec) and the Intersections of the same file              *)
(* (IntersectionsSpec).                                                    *)
(*                                                                         *)
(* Part 5: single _skew and _split calls on arbitrary nodes (RotSpec),     *)
(* and the older BinaryTree of modules/data_structures.py run side by      *)
(* side with the BinaryTreeDict of Part 1 (PairSpec).                      *)
(*                                                                         *)
(* Part 6: the Polygon of Convex Hull/geometry.py with its event list      *)
(* (HullSpec).                                                             *)
(*                                                                         *)
(* Part 7: the instance handles of                                         *)
(* notebooks/modules/visualisation/instances.py: add_point, clear and      *)
(* run_algorithm of the three handle classes (HandleSpec).  Iterating a    *)
(* Python set has no fixed order: every order is a possible outcome.       *)
(***************************************************************************)
EXTENDS Integers, Sequences, FiniteSets, TLC

\* ---------------------------------------------------------------- bounds

\* The keys of a BinaryTree are 1..MaxKey together with the key 8 of
\* Scenario A.
MaxKey == 6
\* The keys of a BinaryTreeDict are 1..MaxDictKey, its values 1..MaxVal.
MaxDictKey == 3
MaxVal == 2
\* Query items are ranges lo..hi with hi - lo <= MaxSpan.
MaxSpan == 1
\* A polygon is given at most MaxVertices vertices and MaxDiagonals
\* diagonals.
MaxVertices == 5
MaxDiagonals == 2
\* try_from_unordered_points is called with lists of at most MaxPath points.
MaxPath == 5
\* A PointSequence is called until its event log holds MaxEvents events,
\* with keys from -MaxIndex on.
MaxEvents == 5
MaxIndex == 3
\* A single rotation is applied to nodes with levels up to MaxLevel.
MaxLevel == 3
\* Each operand of PointSequence.__add__ is called until its event log
\* holds MaxOperandEvents events.
MaxOperandEvents == 3
\* An Intersections object is called until its event log holds
\* MaxIntersectionEvents events.
MaxIntersectionEvents == 4
\* A convex-hull Polygon is called until its event list holds MaxHullEvents
\* events.
MaxHullEvents == 5
\* The two BinaryTree implementations are called with the keys
\* 1..MaxPairKey and the values 1..MaxVal.
MaxPairKey == 7
\* An instance handle is given points until its size() is MaxInstanceSize.
MaxInstanceSize == 3

Keys == (1..MaxKey) \cup {8}
DictKeys == 1..MaxDictKey
Vals == 1..MaxVal

\* ------------------------------------------------------------- Optional

\* A Python value that may be None is a sequence: None is <<>>, x is <<x>>.
None == <<>>
Some(x) == <<x>>
Get(o) == o[1]

\* The values V of a BinaryTreeDict, and the updaters Optional[V] -> V that
\* update() is called with.
Values == {Some(v) : v \in Vals}
Updater(c) ==
    [old \in {None} \cup Values |->
        IF old = None THEN Some(c) ELSE Some((Get(old) % MaxVal) + 1)]
Updaters == {Updater(c) : c \in Vals}

\* ----------------------------------------------------------- Comparator

BEFORE == "BEFORE"
MATCH == "MATCH"
AFTER == "AFTER"

\* A query item may be of another type than the keys.  Items are ranges
\* <<lo, hi>> with lo <= hi: such an item equals every key in lo..hi, is less
\* than every key above hi and greater than every key below lo.  A key k used
\* as an item is the range <<k, k>>, on which the three tests below are the
\* integer tests k = key, k < key, k > key.
AsItem(key) == <<key, key>>

\* DefaultComparator.compare(item, key)
compare(item, key) ==
    IF item[1] <= key /\ key <= item[2] THEN MATCH       \* item == key
    ELSE IF item[2] < key THEN BEFORE                    \* item < key
    ELSE AFTER                                           \* item > key

\* ------------------------------------------------------------------ Node

\* Node._make_empty: the fields of an empty node
EmptyNode ==
    [key |-> None, value |-> None, level |-> 0, left |-> None, right |-> None]

\* Node.is_empty
is_empty(n) == n.level = 0

\* Node._make_leaf
_make_leaf(key, value) ==
    [key |-> Some(key), value |-> value, level |-> 1,
     left |-> Some(EmptyNode), right |-> Some(EmptyNode)]

\* Mutant of _skew: the keys are swapped, the values are not.
_skew_keeping_value(n) ==
    IF ~is_empty(n) /\ Get(n.left).level = n.level
    THEN LET swap_key(s) ==
                 [s EXCEPT !.key = Get(s.left).key,
                           !.left = Some([Get(s.left) EXCEPT !.key = s.key])]
             swap_children(s) == [s EXCEPT !.left = s.right, !.right = s.left]
             move_left(s) ==
                 [s EXCEPT !.left = Get(s.right).left,
                           !.right = Some([Get(s.right) EXCEPT !.left = s.left])]
             swap_right_children(s) ==
                 [s EXCEPT !.right = Some([Get(s.right) EXCEPT
                                              !.left = Get(s.right).right,
                                              !.right = Get(s.right).left])]
         IN  swap_right_children(move_left(swap_children(swap_key(n))))
    ELSE n

\* Node._skew; one step per source line
_skew(n) ==
    IF ~is_empty(n) /\ Get(n.left).level = n.level
    THEN LET \* self._key, self._left._key = self._left._key, self._key
             \* self._value, self._left._value = self._left._value, self._value
             swap_key_value(s) ==
                 [s EXCEPT !.key = Get(s.left).key,
                           !.value = Get(s.left).value,
                           !.left = Some([Get(s.left) EXCEPT !.key = s.key,
                                                             !.value = s.value])]
             \* self._left, self._right = self._right, self._left
             swap_children(s) == [s EXCEPT !.left = s.right, !.right = s.left]
             \* self._left, self._right._left = self._right._left, self._left
             move_left(s) ==
                 [s EXCEPT !.left = Get(s.right).left,
                           !.right = Some([Get(s.right) EXCEPT !.left = s.left])]
             \* self._right._left, self._right._right = self._right._right, self._right._left
             swap_right_children(s) ==
                 [s EXCEPT !.right = Some([Get(s.right) EXCEPT
                                              !.left = Get(s.right).right,
                                              !.right = Get(s.right).left])]
         IN  swap_right_children(move_left(swap_children(swap_key_value(n))))
    ELSE n

\* Mutant of _split: the rotation without the swap of key and value.
_split_without_key_swap(n) ==
    IF ~is_empty(n) /\ ~is_empty(Get(n.right))
       /\ Get(Get(n.right).right).level = n.level
    THEN LET raise_level(s) == [s EXCEPT !.level = s.level + 1]
             swap_children(s) == [s EXCEPT !.left = s.right, !.right = s.left]
             move_right(s) ==
                 [s EXCEPT !.right = Get(s.left).right,
                           !.left = Some([Get(s.left) EXCEPT !.right = s.right])]
             swap_left_children(s) ==
                 [s EXCEPT !.left = Some([Get(s.left) EXCEPT
                                             !.left = Get(s.left).right,
                                             !.right = Get(s.left).left])]
         IN  swap_left_children(move_right(swap_children(raise_level(n))))
    ELSE n

\* Node._split; one step per source line
_split(n) ==
    IF ~is_empty(n) /\ ~is_empty(Get(n.right))
       /\ Get(Get(n.right).right).level = n.level
    THEN LET \* self._key, self._right._key = self._right._key, self._key
             \* self._value, self._right._value = self._right._value, self._value
             swap_key_value(s) ==
                 [s EXCEPT !.key = Get(s.right).key,
                           !.value = Get(s.right).value,
                           !.right = Some([Get(s.right) EXCEPT !.key = s.key,
                                                               !.value = s.value])]
             \* self._level += 1
             raise_level(s) == [s EXCEPT !.level = s.level + 1]
             \* self._left, self._right = self._right, self._left
             swap_children(s) == [s EXCEPT !.left = s.right, !.right = s.left]
             \* self._right, self._left._right = self._left._right, self._right
             move_right(s) ==
                 [s EXCEPT !.right = Get(s.left).right,
                           !.left = Some([Get(s.left) EXCEPT !.right = s.right])]
             \* self._left._left, self._left._right = self._left._right, self._left._left
             swap_left_children(s) ==
                 [s EXCEPT !.left = Some([Get(s.left) EXCEPT
                                             !.left = Get(s.left).right,
                                             !.right = Get(s.left).left])]
         IN  swap_left_children(move_right(swap_children(
                 raise_level(swap_key_value(n)))))
    ELSE n

min(a, b) == IF a <= b THEN a ELSE b

\* Mutant of _lower_level: the right child's level is not clamped.
_lower_level_without_clamp(n) ==
    IF min(Get(n.left).level, Get(n.right).level) + 1 < n.level
    THEN [n EXCEPT !.level = min(Get(n.left).level, Get(n.right).level) + 1]
    ELSE n

\* level = min(...) + 1; if level < self._level: lower self and clamp the
\* right child (the first five lines of Node._adjust_after_deletion)
_lower_level(n) ==
    IF min(Get(n.left).level, Get(n.right).level) + 1 < n.level
    THEN [n EXCEPT !.level = min(Get(n.left).level, Get(n.right).level) + 1,
                   !.right = IF min(Get(n.left).level, Get(n.right).level) + 1
                                  < Get(n.right).level
                             THEN Some([Get(n.right) EXCEPT !.level =
                                     min(Get(n.left).level, Get(n.right).level) + 1])
                             ELSE n.right]
    ELSE n

\* Node._adjust_after_deletion
_adjust_after_deletion(n) ==
    IF ~is_empty(n)
    THEN LET \* self._right._skew()
             skew_right(s) == [s EXCEPT !.right = Some(_skew(Get(s.right)))]
             \* if not self._right.is_empty(): self._right._right._skew()
             skew_right_right(s) ==
                 IF ~is_empty(Get(s.right))
                 THEN [s EXCEPT !.right = Some([Get(s.right) EXCEPT
                                     !.right = Some(_skew(Get(Get(s.right).right)))])]
                 ELSE s
             \* self._right._split()
             split_right(s) == [s EXCEPT !.right = Some(_split(Get(s.right)))]
         IN  split_right(_split(skew_right_right(skew_right(_skew(
                 _lower_level(n))))))
    ELSE n

RECURSIVE Node_insert(_, _, _)
\* Mutant of Node_insert: a matching key has its value overwritten.
Node_insert_overwriting(n, key, value) ==
    IF is_empty(n)
    THEN [node |-> _make_leaf(key, value), ret |-> FALSE]
    ELSE LET cr == compare(AsItem(key), Get(n.key))
             sub == IF cr = BEFORE THEN Node_insert(Get(n.left), key, value)
                    ELSE Node_insert(Get(n.right), key, value)
             a == IF cr = BEFORE THEN [n EXCEPT !.left = Some(sub.node)]
                  ELSE IF cr = AFTER THEN [n EXCEPT !.right = Some(sub.node)]
                  ELSE [n EXCEPT !.value = value]
             was_key_present == IF cr = MATCH THEN TRUE ELSE sub.ret
         IN  [node |-> IF ~was_key_present THEN _split(_skew(a)) ELSE a,
              ret |-> was_key_present]

\* Node.insert; the result is the node afterwards and the returned bool
Node_insert(n, key, value) ==
    IF is_empty(n)
    THEN [node |-> _make_leaf(key, value), ret |-> FALSE]
    ELSE LET cr == compare(AsItem(key), Get(n.key))
             sub == IF cr = BEFORE THEN Node_insert(Get(n.left), key, value)
                    ELSE Node_insert(Get(n.right), key, value)
             a == IF cr = BEFORE THEN [n EXCEPT !.left = Some(sub.node)]
                  ELSE IF cr = AFTER THEN [n EXCEPT !.right = Some(sub.node)]
                  ELSE n
             was_key_present == IF cr = MATCH THEN TRUE ELSE sub.ret
         IN  [node |-> IF ~was_key_present THEN _split(_skew(a)) ELSE a,
              ret |-> was_key_present]

RECURSIVE Node_update(_, _, _)
\* Mutant of Node_update: a matching key keeps its old value.
Node_update_keeping_value(n, key, value_updater) ==
    IF is_empty(n)
    THEN [node |-> _make_leaf(key, value_updater[None]), ret |-> FALSE]
    ELSE LET cr == compare(AsItem(key), Get(n.key))
             sub == IF cr = BEFORE THEN Node_update(Get(n.left), key, value_updater)
                    ELSE Node_update(Get(n.right), key, value_updater)
             a == IF cr = BEFORE THEN [n EXCEPT !.left = Some(sub.node)]
                  ELSE IF cr = AFTER THEN [n EXCEPT !.right = Some(sub.node)]
                  ELSE n
             was_key_present == IF cr = MATCH THEN TRUE ELSE sub.ret
         IN  [node |-> IF ~was_key_present THEN _split(_skew(a)) ELSE a,
              ret |-> was_key_present]

\* Node.update; value_updater is a function from Optional[V] to V
Node_update(n, key, value_updater) ==
    IF is_empty(n)
    THEN [node |-> _make_leaf(key, value_updater[None]), ret |-> FALSE]
    ELSE LET cr == compare(AsItem(key), Get(n.key))
             sub == IF cr = BEFORE THEN Node_update(Get(n.left), key, value_updater)
                    ELSE Node_update(Get(n.right), key, value_updater)
             a == IF cr = BEFORE THEN [n EXCEPT !.left = Some(sub.node)]
                  ELSE IF cr = AFTER THEN [n EXCEPT !.right = Some(sub.node)]
                  ELSE [n EXCEPT !.value = value_updater[n.value]]
             was_key_present == IF cr = MATCH THEN TRUE ELSE sub.ret
         IN  [node |-> IF ~was_key_present THEN _split(_skew(a)) ELSE a,
              ret |-> was_key_present]

RECURSIVE Rightmost(_)
\* the while loop of Node._replace_with_predecessor
Rightmost(predecessor) ==
    IF ~is_empty(Get(predecessor.right)) THEN Rightmost(Get(predecessor.right))
    ELSE predecessor

RECURSIVE Leftmost(_)
\* the while loop of Node._replace_with_successor
Leftmost(successor) ==
    IF ~is_empty(Get(successor.left)) THEN Leftmost(Get(successor.left))
    ELSE successor

RECURSIVE Node_delete(_, _)
RECURSIVE _replace_with_predecessor(_)
RECURSIVE _replace_with_successor(_)

\* Mutant of _replace_with_predecessor: the predecessor's value is not copied.
_replace_with_predecessor_key_only(n) ==
    LET predecessor == Rightmost(Get(n.left))
        a == [n EXCEPT !.key = predecessor.key]
    IN  [a EXCEPT !.left = Some(Node_delete(Get(a.left), Get(predecessor.key)).node)]

\* Node._replace_with_predecessor
_replace_with_predecessor(n) ==
    LET predecessor == Rightmost(Get(n.left))
        a == [n EXCEPT !.key = predecessor.key, !.value = predecessor.value]
    IN  [a EXCEPT !.left = Some(Node_delete(Get(a.left), Get(predecessor.key)).node)]

\* Node._replace_with_successor
_replace_with_successor(n) ==
    LET successor == Leftmost(Get(n.right))
        a == [n EXCEPT !.key = successor.key, !.value = successor.value]
    IN  [a EXCEPT !.right = Some(Node_delete(Get(a.right), Get(successor.key)).node)]

\* Mutant of Node_delete: reaching an empty node reports the key as found.
Node_delete_found_at_empty(n, key) ==
    IF is_empty(n)
    THEN [node |-> n, ret |-> <<TRUE, None>>]
    ELSE LET cr == compare(AsItem(key), Get(n.key))
             sub == IF cr = BEFORE THEN Node_delete(Get(n.left), key)
                    ELSE Node_delete(Get(n.right), key)
             a == IF cr = BEFORE THEN [n EXCEPT !.left = Some(sub.node)]
                  ELSE IF cr = AFTER THEN [n EXCEPT !.right = Some(sub.node)]
                  ELSE IF ~is_empty(Get(n.left)) THEN _replace_with_predecessor(n)
                  ELSE IF ~is_empty(Get(n.right)) THEN _replace_with_successor(n)
                  ELSE EmptyNode
             ret == IF cr = MATCH THEN <<TRUE, n.value>> ELSE sub.ret
             was_key_present == ret[1]
         IN  [node |-> IF was_key_present THEN _adjust_after_deletion(a) ELSE a,
              ret |-> ret]

\* Mutant of Node_delete: a deleted leaf only has its level set to 0.
Node_delete_level_only(n, key) ==
    IF is_empty(n)
    THEN [node |-> n, ret |-> <<FALSE, None>>]
    ELSE LET cr == compare(AsItem(key), Get(n.key))
             sub == IF cr = BEFORE THEN Node_delete(Get(n.left), key)
                    ELSE Node_delete(Get(n.right), key)
             a == IF cr = BEFORE THEN [n EXCEPT !.left = Some(sub.node)]
                  ELSE IF cr = AFTER THEN [n EXCEPT !.right = Some(sub.node)]
                  ELSE IF ~is_empty(Get(n.left)) THEN _replace_with_predecessor(n)
                  ELSE IF ~is_empty(Get(n.right)) THEN _replace_with_successor(n)
                  ELSE [n EXCEPT !.level = 0]
             ret == IF cr = MATCH THEN <<TRUE, n.value>> ELSE sub.ret
             was_key_present == ret[1]
         IN  [node |-> IF was_key_present THEN _adjust_after_deletion(a) ELSE a,
              ret |-> ret]

\* Node.delete; the result is the node afterwards and the returned pair
Node_delete(n, key) ==
    IF is_empty(n)
    THEN [node |-> n, ret |-> <<FALSE, None>>]
    ELSE LET cr == compare(AsItem(key), Get(n.key))
             sub == IF cr = BEFORE THEN Node_delete(Get(n.left), key)
                    ELSE Node_delete(Get(n.right), key)
             a == IF cr = BEFORE THEN [n EXCEPT !.left = Some(sub.node)]
                  ELSE IF cr = AFTER THEN [n EXCEPT !.right = Some(sub.node)]
                  ELSE IF ~is_empty(Get(n.left)) THEN _replace_with_predecessor(n)
                  ELSE IF ~is_empty(Get(n.right)) THEN _replace_with_successor(n)
                  ELSE EmptyNode
             ret == IF cr = MATCH THEN <<TRUE, n.value>> ELSE sub.ret
             was_key_present == ret[1]
         IN  [node |-> IF was_key_present THEN _adjust_after_deletion(a) ELSE a,
              ret |-> ret]

RECURSIVE Node_pop_first(_)
\* Mutant of Node_pop_first: the key and value of the node it was called on
\* are returned, not those popped from the left subtree.
Node_pop_first_own_key(n) ==
    LET goLeft == ~is_empty(Get(n.left))
        sub == Node_pop_first(Get(n.left))
        a == IF goLeft THEN [n EXCEPT !.left = Some(sub.node)]
             ELSE IF ~is_empty(Get(n.right)) THEN _replace_with_successor(n)
             ELSE EmptyNode
    IN  [node |-> _adjust_after_deletion(a),
         ret |-> <<Get(n.key), n.value>>]

\* Node.pop_first; the result is the node afterwards and the returned pair
Node_pop_first(n) ==
    LET goLeft == ~is_empty(Get(n.left))
        sub == Node_pop_first(Get(n.left))
        a == IF goLeft THEN [n EXCEPT !.left = Some(sub.node)]
             ELSE IF ~is_empty(Get(n.right)) THEN _replace_with_successor(n)
             ELSE EmptyNode
    IN  [node |-> _adjust_after_deletion(a),
         ret |-> IF goLeft THEN sub.ret ELSE <<Get(n.key), n.value>>]

RECURSIVE Node_search_matching(_, _)
\* Mutant of Node_search_matching: below a matching node only the left
\* subtree is searched.
Node_search_matching_left_only(n, item) ==
    IF is_empty(n) THEN <<>>
    ELSE LET cr == compare(item, Get(n.key))
         IN  IF cr = BEFORE THEN Node_search_matching(Get(n.left), item)
             ELSE IF cr = AFTER THEN Node_search_matching(Get(n.right), item)
             ELSE Node_search_matching(Get(n.left), item) \o <<Get(n.key)>>

\* Node.search_matching; the iterator is the sequence of keys it yields
Node_search_matching(n, item) ==
    IF is_empty(n) THEN <<>>
    ELSE LET cr == compare(item, Get(n.key))
         IN  IF cr = BEFORE THEN Node_search_matching(Get(n.left), item)
             ELSE IF cr = AFTER THEN Node_search_matching(Get(n.right), item)
             ELSE Node_search_matching(Get(n.left), item)
                  \o <<Get(n.key)>>
                  \o Node_search_matching(Get(n.right), item)

RECURSIVE Node_search_predecessor(_, _, _)
\* Mutant of Node_search_predecessor: a matching key is taken as a candidate.
Node_search_predecessor_not_strict(n, item, candidate) ==
    IF is_empty(n) THEN candidate
    ELSE IF compare(item, Get(n.key)) # BEFORE
         THEN Node_search_predecessor(Get(n.right), item, n.key)
         ELSE Node_search_predecessor(Get(n.left), item, candidate)

\* Node.search_predecessor; candidate is an Optional[K]
Node_search_predecessor(n, item, candidate) ==
    IF is_empty(n) THEN candidate
    ELSE IF compare(item, Get(n.key)) = AFTER
         THEN Node_search_predecessor(Get(n.right), item, n.key)
         ELSE Node_search_predecessor(Get(n.left), item, candidate)

RECURSIVE Node_search_successor(_, _, _)
\* Node.search_successor; candidate is an Optional[K]
Node_search_successor(n, item, candidate) ==
    IF is_empty(n) THEN candidate
    ELSE IF compare(item, Get(n.key)) = BEFORE
         THEN Node_search_successor(Get(n.left), item, n.key)
         ELSE Node_search_successor(Get(n.right), item, candidate)

\* ------------------------------------------- BinaryTree, BinaryTreeDict

\* What a call returns or raises: the root node afterwards, the returned
\* value, and the exception raised (None when the call returns).
Returned(node, ret) == [node |-> node, ret |-> ret, raises |-> None]
Raised(node, exception) == [node |-> node, ret |-> None, raises |-> Some(exception)]

\* BinaryTree.is_empty, BinaryTreeDict.is_empty
BinaryTree_is_empty(root_) == is_empty(root_)

\* BinaryTree.insert
BinaryTree_insert(root_, key) ==
    LET r == Node_insert(root_, key, None) IN Returned(r.node, r.ret)

\* BinaryTree.delete
BinaryTree_delete(root_, key) ==
    LET r == Node_delete(root_, key) IN Returned(r.node, r.ret[1])

\* BinaryTree.pop_first
BinaryTree_pop_first(root_) ==
    IF is_empty(root_) THEN Returned(root_, None)
    ELSE LET r == Node_pop_first(root_) IN Returned(r.node, Some(r.ret[1]))

\* BinaryTree.search_matching
BinaryTree_search_matching(root_, item) ==
    Returned(root_, Node_search_matching(root_, item))

\* BinaryTree.search_predecessor
BinaryTree_search_predecessor(root_, item) ==
    Returned(root_, Node_search_predecessor(root_, item, None))

\* BinaryTree.search_successor
BinaryTree_search_successor(root_, item) ==
    Returned(root_, Node_search_successor(root_, item, None))

\* BinaryTreeDict.insert
BinaryTreeDict_insert(root_, key, value) ==
    LET r == Node_insert(root_, key, value) IN Returned(r.node, r.ret)

\* BinaryTreeDict.update
BinaryTreeDict_update(root_, key, value_updater) ==
    LET r == Node_update(root_, key, value_updater) IN Returned(r.node, r.ret)

\* BinaryTreeDict.delete
BinaryTreeDict_delete(root_, key) ==
    LET r == Node_delete(root_, key) IN Returned(r.node, r.ret)

\* BinaryTreeDict.pop_first
BinaryTreeDict_pop_first(root_) ==
    IF is_empty(root_) THEN Returned(root_, None)
    ELSE LET r == Node_pop_first(root_) IN Returned(r.node, Some(r.ret))

\* BinaryTreeDict.search_matching
BinaryTreeDict_search_matching(root_, item) ==
    Returned(root_, Node_search_matching(root_, item))

\* BinaryTreeDict.search_predecessor: the class body defines the name twice
\* and the second definition, which calls Node.search_successor, is the one
\* the class keeps.
BinaryTreeDict_search_predecessor(root_, item) ==
    Returned(root_, Node_search_successor(root_, item, None))

\* BinaryTreeDict has no attribute search_successor: the call raises.
BinaryTreeDict_search_successor(root_, item) ==
    Raised(root_, "AttributeError")

\* ------------------------------------------------ geometry: points, segments
\* A Point is <<x, y>> with integer coordinates: every value the code
\* computes from them below is an integer or a quotient of two integers, so
\* the comparisons against EPSILON = 1e-9 are decided by the exact values.

\* Point.__sub__, Point.dot, Point.perp_dot
Point_sub(p, q) == <<p[1] - q[1], p[2] - q[2]>>
dot(p, q) == p[1] * q[1] + p[2] * q[2]
perp_dot(p, q) == p[1] * q[2] - p[2] * q[1]

\* Point.orientation; the ValueError for source = target is a result
Point_orientation(self, source, target) ==
    IF source = target THEN "ValueError"
    ELSE IF perp_dot(Point_sub(self, source), Point_sub(target, source)) < 0
    THEN "LEFT"
    ELSE IF perp_dot(Point_sub(self, source), Point_sub(target, source)) > 0
    THEN "RIGHT"
    ELSE \* a = self_direction.dot(target_direction) / target_direction.dot(target_direction)
         IF dot(Point_sub(self, source), Point_sub(target, source)) < 0
         THEN "BEFORE_SOURCE"
         ELSE IF dot(Point_sub(self, source), Point_sub(target, source))
                     > dot(Point_sub(target, source), Point_sub(target, source))
         THEN "BEHIND_TARGET"
         ELSE "BETWEEN"

\* LineSegment.__init__ for two different endpoints
LineSegment(p, q) ==
    IF p[2] > q[2] \/ (p[2] = q[2] /\ p[1] < q[1])
    THEN [upper |-> p, lower |-> q]
    ELSE [upper |-> q, lower |-> p]

\* Mutant of InUnitInterval: only the upper limit is tested.
InUnitInterval_without_lower_limit(n, d) == IF d > 0 THEN n <= d ELSE d <= n

\* n / d lies in 0.0 .. 1.0, for d # 0
InUnitInterval(n, d) == IF d > 0 THEN 0 <= n /\ n <= d ELSE d <= n /\ n <= 0

Min2(a, b) == IF a <= b THEN a ELSE b
Max2(a, b) == IF a >= b THEN a ELSE b

\* The collinear branch of LineSegment.intersection: a_lower and a_upper are
\* nl / d and nu / d with d = self_direction.dot(self_direction) > 0.
OverlapKind(nl, nu, d) ==
    IF Max2(0, Min2(nl, nu)) = Min2(d, Max2(nl, nu)) THEN "Point"
    ELSE IF Max2(0, Min2(nl, nu)) < Min2(d, Max2(nl, nu)) THEN "LineSegment"
    ELSE "None"

\* LineSegment.intersection: the type of the result, "None", "Point" or
\* "LineSegment" (its callers here read nothing else of it)
LineSegment_intersection(self, other) ==
    LET self_direction == Point_sub(self.upper, self.lower)
        other_direction == Point_sub(other.upper, other.lower)
        lower_offset == Point_sub(other.lower, self.lower)
        upper_offset == Point_sub(other.upper, self.lower)
    IN  IF perp_dot(self_direction, other_direction) # 0
        THEN IF /\ InUnitInterval(perp_dot(lower_offset, other_direction),
                                  perp_dot(self_direction, other_direction))
                /\ InUnitInterval(perp_dot(lower_offset, self_direction),
                                  perp_dot(self_direction, other_direction))
             THEN "Point"
             ELSE "None"
        ELSE IF \/ perp_dot(lower_offset, other_direction) = 0
                \/ perp_dot(lower_offset, self_direction) = 0
        THEN OverlapKind(dot(lower_offset, self_direction),
                         dot(upper_offset, self_direction),
                         dot(self_direction, self_direction))
        ELSE "None"

\* ------------------------------------- the doubly connected simple polygon
\* Objects are numbered in the order they are created.  A polygon value p
\* carries the objects made on its behalf and its own fields:
\*   p.vertices[v] = [point, edge]            the Vertex objects
\*   p.edges[e]    = [origin, twin, prev, next]   the HalfEdge objects
\* and _topmost_vertex, _closing_edge (Optional object numbers),
\* _is_reversed, _has_diagonals, _number_of_vertices.

\* DoublyConnectedSimplePolygon.clear, on a new polygon
clear ==
    [vertices |-> <<>>, edges |-> <<>>,
     topmost_vertex |-> None, closing_edge |-> None,
     is_reversed |-> FALSE, has_diagonals |-> FALSE,
     number_of_vertices |-> 0]

\* HalfEdge.__init__: the new object is the next number, linked to itself
HalfEdge(p, origin) ==
    [p EXCEPT !.edges = Append(p.edges,
        [origin |-> origin, twin |-> Len(p.edges) + 1,
         prev |-> Len(p.edges) + 1, next |-> Len(p.edges) + 1])]

\* Vertex.__init__: the vertex and its own new half-edge
Vertex(p, point) ==
    HalfEdge([p EXCEPT !.vertices = Append(p.vertices,
                 [point |-> point, edge |-> Len(p.edges) + 1])],
             Len(p.vertices) + 1)

\* copy.copy of a half-edge: a new object with the same four fields
copy_copy(p, e) == [p EXCEPT !.edges = Append(p.edges, p.edges[e])]

\* HalfEdge.destination
destination(p, e) == p.edges[p.edges[e].twin].origin

\* Mutant of upper_and_lower: equal y is not decided by x.
upper_and_lower_by_y_only(p, e) ==
    IF p.vertices[p.edges[e].origin].point[2]
           > p.vertices[destination(p, e)].point[2]
    THEN <<p.edges[e].origin, destination(p, e)>>
    ELSE <<destination(p, e), p.edges[e].origin>>

\* HalfEdge.upper_and_lower: the pair of vertices
upper_and_lower(p, e) ==
    LET origin == p.vertices[p.edges[e].origin].point
        dest == p.vertices[destination(p, e)].point
    IN  IF origin[2] > dest[2] \/ (origin[2] = dest[2] /\ origin[1] < dest[1])
        THEN <<p.edges[e].origin, destination(p, e)>>
        ELSE <<destination(p, e), p.edges[e].origin>>

\* HalfEdge._set_twin
_set_twin(p, e, twin) ==
    [p EXCEPT !.edges = [[p.edges EXCEPT ![e].twin = twin]
                                  EXCEPT ![twin].twin = e]]

\* Mutant of _set_prev: the reciprocal next link is not set.
_set_prev_one_sided(p, e, prev) ==
    [p EXCEPT !.edges = [p.edges EXCEPT ![e].prev = prev]]

\* HalfEdge._set_prev
_set_prev(p, e, prev) ==
    [p EXCEPT !.edges = [[p.edges EXCEPT ![e].prev = prev]
                                  EXCEPT ![prev].next = e]]

\* HalfEdge._set_next
_set_next(p, e, next) ==
    [p EXCEPT !.edges = [[p.edges EXCEPT ![e].next = next]
                                  EXCEPT ![next].prev = e]]

RECURSIVE vertices_from(_, _)
\* the while loop of vertices()
vertices_from(p, edge) ==
    IF edge = Get(p.closing_edge) THEN <<>>
    ELSE <<destination(p, edge)>> \o
         vertices_from(p, IF p.is_reversed THEN p.edges[edge].next
                          ELSE p.vertices[destination(p, edge)].edge)

\* Mutant of vertices: the traversal starts with the origin of the closing
\* edge.
vertices_from_origin(p) ==
    IF p.closing_edge = None THEN <<>>
    ELSE <<p.edges[Get(p.closing_edge)].origin>> \o
         vertices_from(p, IF p.is_reversed THEN p.edges[Get(p.closing_edge)].next
                          ELSE p.vertices[destination(p, Get(p.closing_edge))].edge)

\* DoublyConnectedSimplePolygon.vertices: the vertices in the order they
\* were added
vertices(p) ==
    IF p.closing_edge = None THEN <<>>
    ELSE <<destination(p, Get(p.closing_edge))>> \o
         vertices_from(p, IF p.is_reversed THEN p.edges[Get(p.closing_edge)].next
                          ELSE p.vertices[destination(p, Get(p.closing_edge))].edge)

RECURSIVE vertices_acw_from(_, _)
\* the while loop of vertices_acw()
vertices_acw_from(p, edge) ==
    IF destination(p, edge) = Get(p.topmost_vertex) THEN <<>>
    ELSE <<destination(p, edge)>> \o
         vertices_acw_from(p, p.vertices[destination(p, edge)].edge)

\* DoublyConnectedSimplePolygon.vertices_acw: from the topmost vertex on
vertices_acw(p) ==
    IF p.closing_edge = None THEN <<>>
    ELSE <<Get(p.topmost_vertex)>> \o
         vertices_acw_from(p, p.vertices[Get(p.topmost_vertex)].edge)

\* DoublyConnectedSimplePolygon.has_diagonals, __len__
has_diagonals(p) == p.has_diagonals
len(p) == p.number_of_vertices

\* The points is_simple chains: those of vertices(), then the candidate
\* point if there is one (a Point is always true), else the first again.
PointChain(p, final_vertex_point) ==
    [i \in 1..Len(vertices(p)) |-> p.vertices[vertices(p)[i]].point] \o
    <<IF final_vertex_point # None THEN Get(final_vertex_point)
      ELSE p.vertices[destination(p, Get(p.closing_edge))].point>>

\* The intersection of the segment from points[i] with that from points[j]
SegmentsMeet(points, i, j) ==
    LineSegment_intersection(LineSegment(points[i], points[i + 1]),
                             LineSegment(points[j], points[j + 1]))

\* Mutant of SimpleChain: the last segment is not tested against the
\* segments between the first and the one before it.
SimpleChain_without_middle(points, candidate_closes) ==
    /\ \A i \in 1..(Len(points) - 1) : points[i] # points[i + 1]
    /\ IF candidate_closes
       THEN SegmentsMeet(points, Len(points) - 1, 1) # "LineSegment"
       ELSE SegmentsMeet(points, Len(points) - 1, 1) = "None"
    /\ SegmentsMeet(points, Len(points) - 1, Len(points) - 2) # "LineSegment"

\* is_simple from the while loop on: segment i runs from points[i] to
\* points[i + 1]; only the last segment is tested against the others.
SimpleChain(points, candidate_closes) ==
    /\ \A i \in 1..(Len(points) - 1) : points[i] # points[i + 1]
    /\ IF candidate_closes
       THEN SegmentsMeet(points, Len(points) - 1, 1) # "LineSegment"
       ELSE SegmentsMeet(points, Len(points) - 1, 1) = "None"
    /\ \A j \in 2..(Len(points) - 3) :
           SegmentsMeet(points, Len(points) - 1, j) = "None"
    /\ SegmentsMeet(points, Len(points) - 1, Len(points) - 2) # "LineSegment"

\* DoublyConnectedSimplePolygon.is_simple; final_vertex_point is Optional
is_simple(p, final_vertex_point) ==
    IF p.number_of_vertices + (IF final_vertex_point # None THEN 1 ELSE 0) < 3
    THEN FALSE
    ELSE SimpleChain(PointChain(p, final_vertex_point),
                     final_vertex_point = None \/ p.number_of_vertices = 2)

\* What a call leaves: the polygon, the returned object, the exception.
Done(p, ret) == [polygon |-> p, ret |-> Some(ret), raises |-> None]
Fails(p, exception) == [polygon |-> p, ret |-> None, raises |-> Some(exception)]

\* _setup_edges_for_new_vertex, the branch for the third vertex: both
\* half-edges of the only edge are copied; the copies become numbers
\* Len(p.edges) + 1 (of the closing edge) and + 2 (of its twin).
_copy_closing_edges(p) ==
    LET closing == Get(p.closing_edge)
        old_closing_edge == Len(p.edges) + 1
        old_closing_edge_twin == Len(p.edges) + 2
        copied(q) == copy_copy(copy_copy(q, closing), q.edges[closing].twin)
        incident(q) ==
            [q EXCEPT !.vertices[q.edges[old_closing_edge].origin].edge =
                          old_closing_edge]
        prev1(q) == _set_prev(q, old_closing_edge, q.edges[closing].twin)
        prev2(q) == _set_prev(q, old_closing_edge_twin, closing)
    IN  prev2(prev1(incident(copied(p))))

\* _setup_edges_for_new_vertex from "closing_edge, converse_edge = ..." on
_link_new_edges(p, old_closing_edge, old_closing_edge_twin, closing_edge, converse_edge) ==
    LET twin1(q) == _set_twin(q, converse_edge, old_closing_edge)
        twin2(q) == _set_twin(q, closing_edge, old_closing_edge_twin)
        next1(q) == _set_next(q, converse_edge, q.edges[old_closing_edge_twin].next)
        next2(q) == _set_next(q, closing_edge, q.edges[old_closing_edge].next)
        prev1(q) == _set_prev(q, converse_edge, old_closing_edge_twin)
        prev2(q) == _set_prev(q, closing_edge, old_closing_edge)
        closed(q) == [q EXCEPT !.closing_edge = Some(closing_edge)]
    IN  closed(prev2(prev1(next2(next1(twin2(twin1(p)))))))

\* DoublyConnectedSimplePolygon._setup_edges_for_new_vertex; the vertex and
\* its half-edge exist, HalfEdge(vertex) becomes the newest half-edge
_setup_edges_for_new_vertex(p, vertex) ==
    LET new_edges(q, old_closing_edge, old_closing_edge_twin) ==
            IF q.is_reversed
            THEN _link_new_edges(q, old_closing_edge, old_closing_edge_twin,
                                 Len(q.edges), q.vertices[vertex].edge)
            ELSE _link_new_edges(q, old_closing_edge, old_closing_edge_twin,
                                 q.vertices[vertex].edge, Len(q.edges))
    IN  IF p.number_of_vertices = 2
        THEN new_edges(HalfEdge(_copy_closing_edges(p), vertex),
                       Len(p.edges) + 1, Len(p.edges) + 2)
        ELSE new_edges(HalfEdge(p, vertex), Get(p.closing_edge),
                       p.edges[Get(p.closing_edge)].twin)

\* vertex._edge = vertex._edge._prev._twin
_flip_edge(p, vertex) ==
    [p EXCEPT !.vertices[vertex].edge =
                  p.edges[p.edges[p.vertices[vertex].edge].prev].twin]

RECURSIVE _reverse_from(_, _)
\* the while loop of _reverse_orientation
_reverse_from(p, vertex) ==
    IF vertex = Get(p.topmost_vertex) THEN p
    ELSE LET flipped(q) ==
                 _reverse_from(q, destination(q, q.vertices[vertex].edge))
         IN  flipped(_flip_edge(p, vertex))

\* Mutant of _reverse_orientation: only the flag is toggled.
_reverse_orientation_flag_only(p) ==
    [p EXCEPT !.is_reversed = ~p.is_reversed]

\* DoublyConnectedSimplePolygon._reverse_orientation
_reverse_orientation(p) ==
    LET walk(q) == _reverse_from(q, destination(q,
                       q.vertices[Get(q.topmost_vertex)].edge))
        toggled(q) == [q EXCEPT !.is_reversed = ~q.is_reversed]
    IN  toggled(walk(_flip_edge(p, Get(p.topmost_vertex))))

\* add_vertex: the orientation at the topmost vertex
topmost_orientation(p) ==
    LET edge == p.edges[p.vertices[Get(p.topmost_vertex)].edge]
    IN  Point_orientation(p.vertices[Get(p.topmost_vertex)].point,
                          p.vertices[p.edges[edge.prev].origin].point,
                          p.vertices[p.edges[edge.next].origin].point)

\* add_vertex from "self._number_of_vertices += 1" on; the vertex is the
\* newest one
_count_and_orient(p) ==
    LET counted(q) == [q EXCEPT !.number_of_vertices = q.number_of_vertices + 1]
        oriented(q) ==
            IF q.number_of_vertices >= 3
            THEN IF topmost_orientation(q) = "ValueError"
                 THEN Fails(q, "ValueError")
                 ELSE IF topmost_orientation(q) # "RIGHT"
                 THEN Done(_reverse_orientation(q), Len(q.vertices))
                 ELSE Done(q, Len(q.vertices))
            ELSE Done(q, Len(q.vertices))
    IN  oriented(counted(p))

\* Mutant of _place_vertex: a vertex as high as the topmost one never
\* replaces it.
_place_vertex_without_tie_break(p, point) ==
    LET topmost(q) == q.vertices[Get(q.topmost_vertex)].point
        placed(q) ==
            IF q.number_of_vertices = 0
            THEN [q EXCEPT !.topmost_vertex = Some(Len(q.vertices)),
                           !.closing_edge = Some(q.vertices[Len(q.vertices)].edge)]
            ELSE _setup_edges_for_new_vertex(
                     IF point[2] > topmost(q)[2]
                     THEN [q EXCEPT !.topmost_vertex = Some(Len(q.vertices))]
                     ELSE q,
                     Len(q.vertices))
    IN  placed(Vertex(p, point))

\* add_vertex from "vertex = Vertex(point)" to the edge set-up
_place_vertex(p, point) ==
    LET topmost(q) == q.vertices[Get(q.topmost_vertex)].point
        placed(q) ==
            IF q.number_of_vertices = 0
            THEN [q EXCEPT !.topmost_vertex = Some(Len(q.vertices)),
                           !.closing_edge = Some(q.vertices[Len(q.vertices)].edge)]
            ELSE _setup_edges_for_new_vertex(
                     IF \/ point[2] > topmost(q)[2]
                        \/ (point[2] = topmost(q)[2] /\ point[1] < topmost(q)[1])
                     THEN [q EXCEPT !.topmost_vertex = Some(Len(q.vertices))]
                     ELSE q,
                     Len(q.vertices))
    IN  placed(Vertex(p, point))

\* Mutant of add_vertex: the vertex is made before the point is tested.
add_vertex_making_vertex_first(p, point) ==
    IF p.has_diagonals
    THEN Fails(Vertex(p, point), "RuntimeError")
    ELSE IF \/ (p.number_of_vertices = 1 /\
                   point = p.vertices[Get(p.topmost_vertex)].point)
            \/ (p.number_of_vertices >= 2 /\ ~is_simple(p, Some(point)))
    THEN Fails(Vertex(p, point), "ValueError")
    ELSE _count_and_orient(_place_vertex(p, point))

\* Mutant of add_vertex: a polygon with diagonals still takes vertices.
add_vertex_despite_diagonals(p, point) ==
    IF \/ (p.number_of_vertices = 1 /\
              point = p.vertices[Get(p.topmost_vertex)].point)
       \/ (p.number_of_vertices >= 2 /\ ~is_simple(p, Some(point)))
    THEN Fails(p, "ValueError")
    ELSE _count_and_orient(_place_vertex(p, point))

\* Mutant of add_vertex: the point of the sole vertex is not tested.
add_vertex_beside_sole_vertex(p, point) ==
    IF p.has_diagonals
    THEN Fails(p, "RuntimeError")
    ELSE IF p.number_of_vertices >= 2 /\ ~is_simple(p, Some(point))
    THEN Fails(p, "ValueError")
    ELSE _count_and_orient(_place_vertex(p, point))

\* DoublyConnectedSimplePolygon.add_vertex
add_vertex(p, point) ==
    IF p.has_diagonals
    THEN Fails(p, "RuntimeError")
    ELSE IF \/ (p.number_of_vertices = 1 /\
                   point = p.vertices[Get(p.topmost_vertex)].point)
            \/ (p.number_of_vertices >= 2 /\ ~is_simple(p, Some(point)))
    THEN Fails(p, "ValueError")
    ELSE _count_and_orient(_place_vertex(p, point))

\* Mutant of add_diagonal: the first diagonal becomes the incident edge of
\* its origin.
add_diagonal_as_incident_edge(p, connection_edge1, connection_edge2) ==
    LET vertex1 == p.edges[connection_edge1].origin
        vertex2 == p.edges[connection_edge2].origin
        made(q) == HalfEdge(HalfEdge(q, vertex1), vertex2)
        diagonal1 == Len(p.edges) + 1
        diagonal2 == Len(p.edges) + 2
        twin(q) == _set_twin(q, diagonal1, diagonal2)
        prev1(q) == _set_prev(q, diagonal1, q.edges[connection_edge1].prev)
        prev2(q) == _set_prev(q, diagonal2, q.edges[connection_edge2].prev)
        next1(q) == _set_next(q, diagonal1, connection_edge2)
        next2(q) == _set_next(q, diagonal2, connection_edge1)
        flagged(q) == [q EXCEPT !.has_diagonals = TRUE,
                                !.vertices[vertex1].edge = diagonal1]
    IN  IF \/ vertex1 = vertex2
           \/ destination(p, p.vertices[vertex1].edge) = vertex2
           \/ destination(p, p.vertices[vertex2].edge) = vertex1
        THEN Fails(p, "ValueError")
        ELSE Done(flagged(next2(next1(prev2(prev1(twin(made(p))))))), diagonal1)

\* Mutant of add_diagonal: the diagonals are linked before the test.
add_diagonal_unchecked(p, connection_edge1, connection_edge2) ==
    LET made(q) == HalfEdge(HalfEdge(q, q.edges[connection_edge1].origin),
                            q.edges[connection_edge2].origin)
        diagonal1 == Len(p.edges) + 1
        diagonal2 == Len(p.edges) + 2
        twin(q) == _set_twin(q, diagonal1, diagonal2)
        prev1(q) == _set_prev(q, diagonal1, q.edges[connection_edge1].prev)
        prev2(q) == _set_prev(q, diagonal2, q.edges[connection_edge2].prev)
        next1(q) == _set_next(q, diagonal1, connection_edge2)
        next2(q) == _set_next(q, diagonal2, connection_edge1)
        flagged(q) == [q EXCEPT !.has_diagonals = TRUE]
    IN  IF p.edges[connection_edge1].origin = p.edges[connection_edge2].origin
        THEN Fails(flagged(next2(next1(prev2(prev1(twin(made(p))))))), "ValueError")
        ELSE Done(flagged(next2(next1(prev2(prev1(twin(made(p))))))), diagonal1)

\* Mutant of add_diagonal: each diagonal is followed by the connection edge
\* of its own origin.
add_diagonal_next_swapped(p, connection_edge1, connection_edge2) ==
    LET vertex1 == p.edges[connection_edge1].origin
        vertex2 == p.edges[connection_edge2].origin
        made(q) == HalfEdge(HalfEdge(q, vertex1), vertex2)
        diagonal1 == Len(p.edges) + 1
        diagonal2 == Len(p.edges) + 2
        twin(q) == _set_twin(q, diagonal1, diagonal2)
        prev1(q) == _set_prev(q, diagonal1, q.edges[connection_edge1].prev)
        prev2(q) == _set_prev(q, diagonal2, q.edges[connection_edge2].prev)
        next1(q) == _set_next(q, diagonal1, connection_edge1)
        next2(q) == _set_next(q, diagonal2, connection_edge2)
        flagged(q) == [q EXCEPT !.has_diagonals = TRUE]
    IN  IF \/ vertex1 = vertex2
           \/ destination(p, p.vertices[vertex1].edge) = vertex2
           \/ destination(p, p.vertices[vertex2].edge) = vertex1
        THEN Fails(p, "ValueError")
        ELSE Done(flagged(next2(next1(prev2(prev1(twin(made(p))))))), diagonal1)

\* Mutant of add_diagonal: only equal origins are rejected.
add_diagonal_between_neighbours(p, connection_edge1, connection_edge2) ==
    LET vertex1 == p.edges[connection_edge1].origin
        vertex2 == p.edges[connection_edge2].origin
        made(q) == HalfEdge(HalfEdge(q, vertex1), vertex2)
        diagonal1 == Len(p.edges) + 1
        diagonal2 == Len(p.edges) + 2
        twin(q) == _set_twin(q, diagonal1, diagonal2)
        prev1(q) == _set_prev(q, diagonal1, q.edges[connection_edge1].prev)
        prev2(q) == _set_prev(q, diagonal2, q.edges[connection_edge2].prev)
        next1(q) == _set_next(q, diagonal1, connection_edge2)
        next2(q) == _set_next(q, diagonal2, connection_edge1)
        flagged(q) == [q EXCEPT !.has_diagonals = TRUE]
    IN  IF vertex1 = vertex2
        THEN Fails(p, "ValueError")
        ELSE Done(flagged(next2(next1(prev2(prev1(twin(made(p))))))), diagonal1)

\* DoublyConnectedSimplePolygon.add_diagonal
add_diagonal(p, connection_edge1, connection_edge2) ==
    LET vertex1 == p.edges[connection_edge1].origin
        vertex2 == p.edges[connection_edge2].origin
        made(q) == HalfEdge(HalfEdge(q, vertex1), vertex2)
        diagonal1 == Len(p.edges) + 1
        diagonal2 == Len(p.edges) + 2
        twin(q) == _set_twin(q, diagonal1, diagonal2)
        prev1(q) == _set_prev(q, diagonal1, q.edges[connection_edge1].prev)
        prev2(q) == _set_prev(q, diagonal2, q.edges[connection_edge2].prev)
        next1(q) == _set_next(q, diagonal1, connection_edge2)
        next2(q) == _set_next(q, diagonal2, connection_edge1)
        flagged(q) == [q EXCEPT !.has_diagonals = TRUE]
    IN  IF \/ vertex1 = vertex2
           \/ destination(p, p.vertices[vertex1].edge) = vertex2
           \/ destination(p, p.vertices[vertex2].edge) = vertex1
        THEN Fails(p, "ValueError")
        ELSE Done(flagged(next2(next1(prev2(prev1(twin(made(p))))))), diagonal1)

\* ------------------------------------------- try_from_unordered_points
\* A length is whole + root2 * sqrt(2) with natural numbers whole and root2:
\* between the points of Points every distance is one (4, 2 sqrt(2),
\* 4 sqrt(2), or 0 from a point to itself), and the floating-point sums and
\* comparisons the code makes of two such distances are exact.

\* math.sqrt of a square or of twice a square
sqrt(q) ==
    IF \E s \in 0..q : s * s = q
    THEN [whole |-> CHOOSE s \in 0..q : s * s = q, root2 |-> 0]
    ELSE [whole |-> 0, root2 |-> CHOOSE s \in 0..q : 2 * s * s = q]

\* Point.distance
distance(self, other) ==
    sqrt((self[1] - other[1]) * (self[1] - other[1])
         + (self[2] - other[2]) * (self[2] - other[2]))

\* float + and < on lengths
Plus(x, y) == [whole |-> x.whole + y.whole, root2 |-> x.root2 + y.root2]
Less(x, y) ==
    LET u == x.whole - y.whole
        w == y.root2 - x.root2
    IN  \/ (u < 0 /\ w >= 0)
        \/ (u >= 0 /\ w > 0 /\ u * u < 2 * w * w)
        \/ (u < 0 /\ w < 0 /\ u * u > 2 * w * w)

\* path[k] of the Python list path, k counted from 0
At(path, k) == path[k + 1]

\* the two sums compared in the loop body
subpath_distances(path, i, j) ==
    Plus(distance(At(path, i), At(path, j)),
         distance(At(path, i + 1), At(path, (j + 1) % Len(path))))
neighbour_distances(path, i, j) ==
    Plus(distance(At(path, i), At(path, i + 1)),
         distance(At(path, j), At(path, (j + 1) % Len(path))))

\* Mutant of found_shorter: equal sums count as an improvement.
found_shorter_or_equal(path, i, j) ==
    ~Less(neighbour_distances(path, i, j), subpath_distances(path, i, j))

\* subpath_distances < neighbour_distances
found_shorter(path, i, j) ==
    Less(subpath_distances(path, i, j), neighbour_distances(path, i, j))

\* path[i + 1:j + 1] = reversed(path[i + 1:j + 1])
reverse_subpath(path, i, j) ==
    [k \in 1..Len(path) |->
        IF i + 2 <= k /\ k <= j + 1 THEN path[(i + 2) + (j + 1) - k] ELSE path[k]]

RECURSIVE add_vertices(_, _)
\* Mutant of add_vertices: a rejected point is passed over.
add_vertices_past_rejections(r, boundary_path) ==
    IF boundary_path = <<>> THEN r
    ELSE add_vertices(Done(add_vertex(r.polygon, Head(boundary_path)).polygon, 0),
                      Tail(boundary_path))

\* the for loop of DoublyConnectedSimplePolygon.__init__: r is what the
\* calls so far have left, an exception ends the loop
add_vertices(r, boundary_path) ==
    IF boundary_path = <<>> \/ r.raises # None THEN r
    ELSE add_vertices(add_vertex(r.polygon, Head(boundary_path)), Tail(boundary_path))

\* DoublyConnectedSimplePolygon.__init__: the new polygon, or the exception
\* of the add_vertex that raised
DoublyConnectedSimplePolygon(boundary_path) ==
    add_vertices(Done(clear, 0), boundary_path)

\* ------------------------------------------------------- PointSequence
\* A PointSequence value s is [points, animation_events]: the lists _points
\* and _animation_events.  An event is a record with its class as type.

AppendEvent(point) == [type |-> "AppendEvent", point |-> point]
PopEvent == [type |-> "PopEvent"]
DeleteEvent(key) == [type |-> "DeleteEvent", key |-> key]
ClearEvent == [type |-> "ClearEvent"]

\* What a list operation or a PointSequence call leaves: the list or
\* sequence, and the exception.
Left(value) == [value |-> value, raises |-> None]
Raising(value, exception) == [value |-> value, raises |-> Some(exception)]

\* del points[key] of a Python list, for an int key: a negative key counts
\* from the end, a key out of range raises IndexError.
list_del(points, key) ==
    LET index == IF key < 0 THEN Len(points) + key ELSE key
    IN  IF index < 0 \/ index >= Len(points)
        THEN Raising(points, "IndexError")
        ELSE Left([k \in 1..(Len(points) - 1) |->
                      IF k <= index THEN points[k] ELSE points[k + 1]])

\* points.pop() of a Python list
list_pop(points) ==
    IF points = <<>> THEN Raising(points, "IndexError")
    ELSE Left(SubSeq(points, 1, Len(points) - 1))

\* AnimationEvent.execute_on of the four event classes
execute_on(event, points) ==
    IF event.type = "AppendEvent" THEN Left(Append(points, event.point))
    ELSE IF event.type = "PopEvent" THEN list_pop(points)
    ELSE IF event.type = "DeleteEvent" THEN list_del(points, event.key)
    ELSE Left(<<>>)

\* PointSequence.__init__ without points
PointSequence == [points |-> <<>>, animation_events |-> <<>>]

\* PointSequence.append
PointSequence_append(s, point) ==
    Left([points |-> Append(s.points, point),
          animation_events |-> Append(s.animation_events, AppendEvent(point))])

\* Mutant of PointSequence_pop: the PopEvent is not recorded.
PointSequence_pop_unrecorded(s) ==
    IF list_pop(s.points).raises # None
    THEN Raising(s, Get(list_pop(s.points).raises))
    ELSE Left([s EXCEPT !.points = list_pop(s.points).value])

\* PointSequence.pop
PointSequence_pop(s) ==
    IF list_pop(s.points).raises # None
    THEN Raising(s, Get(list_pop(s.points).raises))
    ELSE Left([points |-> list_pop(s.points).value,
               animation_events |-> Append(s.animation_events, PopEvent)])

\* PointSequence.clear
PointSequence_clear(s) ==
    Left([points |-> <<>>,
          animation_events |-> Append(s.animation_events, ClearEvent)])

\* PointSequence.animate
PointSequence_animate(s, point) ==
    Left([s EXCEPT !.animation_events =
                       Append(Append(s.animation_events, AppendEvent(point)),
                              PopEvent)])

\* GeometricObject.animation_events: an AppendEvent per point of points()
GeometricObject_animation_events(s) ==
    [k \in 1..Len(s.points) |-> AppendEvent(s.points[k])]

\* PointSequence.reset_animations
PointSequence_reset_animations(s) ==
    Left([s EXCEPT !.animation_events = GeometricObject_animation_events(s)])

\* Mutant of PointSequence_delitem: the DeleteEvent is recorded before the
\* point is deleted.
PointSequence_delitem_recording_first(s, key) ==
    IF ~key.int \/ key.value >= 0
    THEN Raising(s, "ValueError")
    ELSE IF list_del(s.points, key.value).raises # None
    THEN Raising([s EXCEPT !.animation_events =
                               Append(s.animation_events, DeleteEvent(key.value))],
                 Get(list_del(s.points, key.value).raises))
    ELSE Left([points |-> list_del(s.points, key.value).value,
               animation_events |->
                   Append(s.animation_events, DeleteEvent(key.value))])

\* PointSequence.__delitem__; the key is [int |-> TRUE, value |-> an int]
\* or, for any other object, [int |-> FALSE, value |-> 0]
PointSequence_delitem(s, key) ==
    IF ~key.int \/ key.value >= 0
    THEN Raising(s, "ValueError")
    ELSE IF list_del(s.points, key.value).raises # None
    THEN Raising(s, Get(list_del(s.points, key.value).raises))
    ELSE Left([points |-> list_del(s.points, key.value).value,
               animation_events |->
                   Append(s.animation_events, DeleteEvent(key.value))])

\* PointSequence.__add__; an operand that is no PointSequence is a record
\* without the field animation_events
PointSequence_add(s, o) ==
    IF "animation_events" \notin DOMAIN o
    THEN Raising(PointSequence, "TypeError")
    ELSE Left([points |-> s.points \o o.points,
               animation_events |-> s.animation_events \o o.animation_events])

\* ------------------------------------------------------------ Intersections
\* An Intersections value is [intersections, animation_events]: the
\* OrderedDict _intersections as the list of its items in insertion order,
\* each [point, segments], and the list _animation_events.

\* The coordinates of the points given to an Intersections object are
\* counted in millionths, so that rounding to 5 decimal digits changes them.

\* Intersections.__init__
Intersections == [intersections |-> <<>>, animation_events |-> <<>>]

\* round(c, 5) of a float of c millionths, c not half-way between two
\* multiples of a hundred-thousandth: the nearest such multiple
round5(c) == ((c + 5) \div 10) * 10

\* Intersections.add: setdefault finds the item of the rounded point or
\* appends one with an empty set; the event is recorded if that set is
\* empty; then the set takes the line segments.
Intersections_add(s, intersection_point, line_segments) ==
    LET \* Point.__round__ rounds both coordinates
        rounded_point ==
            <<round5(intersection_point[1]), round5(intersection_point[2])>>
        setdefault(t) ==
            IF \E k \in 1..Len(t.intersections) :
                   t.intersections[k].point = rounded_point
            THEN t
            ELSE [t EXCEPT !.intersections =
                     Append(t.intersections,
                            [point |-> rounded_point, segments |-> {}])]
        key(t) ==
            CHOOSE k \in 1..Len(t.intersections) :
                t.intersections[k].point = rounded_point
        record_if_empty(t) ==
            IF t.intersections[key(t)].segments = {}
            THEN [t EXCEPT !.animation_events =
                     Append(t.animation_events, AppendEvent(rounded_point))]
            ELSE t
        update(t) ==
            [t EXCEPT !.intersections[key(t)].segments = @ \cup line_segments]
    IN  update(record_if_empty(setdefault(s)))

\* ------------------------------------------------- the convex-hull Polygon
\* A Polygon value is [points, events, last_was_pop].  An event is a record
\* that names the list method its lambda calls, and the arguments.

\* Polygon.__init__ without points
Polygon == [points |-> <<>>, events |-> <<>>, last_was_pop |-> FALSE]

\* An event called on the list l: l.append(point), l.pop(),
\* l.__setitem__(-1, point) or l.__delitem__(key)
event_call(event, l) ==
    IF event.method = "append" THEN Left(Append(l, event.point))
    ELSE IF event.method = "pop" THEN list_pop(l)
    ELSE IF event.method = "__setitem__"
    THEN IF l = <<>> THEN Raising(l, "IndexError")
         ELSE Left([l EXCEPT ![Len(l)] = event.point])
    ELSE list_del(l, event.key)

\* Polygon.append
Polygon_append(h, point) ==
    IF h.last_was_pop
    THEN [points |-> Append(h.points, point),
          events |-> [h.events EXCEPT ![Len(h.events)] =
                         [method |-> "__setitem__", point |-> point]],
          last_was_pop |-> FALSE]
    ELSE [h EXCEPT !.points = Append(h.points, point),
                   !.events = Append(h.events,
                                  [method |-> "append", point |-> point])]

\* Polygon.pop
Polygon_pop(h) ==
    IF list_pop(h.points).raises # None
    THEN Raising(h, Get(list_pop(h.points).raises))
    ELSE Left([points |-> list_pop(h.points).value,
               events |-> Append(h.events, [method |-> "pop"]),
               last_was_pop |-> TRUE])

\* Polygon.__delitem__; the key as for PointSequence_delitem
Polygon_delitem(h, key) ==
    IF ~key.int \/ key.value >= 0
    THEN Raising(h, "ValueError")
    ELSE IF list_del(h.points, key.value).raises # None
    THEN Raising(h, Get(list_del(h.points, key.value).raises))
    ELSE Left([h EXCEPT !.points = list_del(h.points, key.value).value,
                        !.events = Append(h.events,
                                       [method |-> "__delitem__",
                                        key |-> key.value])])

\* ------------------------- the older BinaryTree (modules/data_structures.py)
\* Its Node has the same five fields, without underscore; skew and split
\* allocate the node that moves down.  Keys are compared by the default
\* comparator, called as comparator(self.key, key).

\* Node.skew
Older_skew(n) ==
    IF is_empty(n) \/ is_empty(Get(n.left)) THEN n
    ELSE IF Get(n.left).level = n.level
    THEN [key |-> Get(n.left).key,
          value |-> Get(n.left).value,
          level |-> n.level,
          left |-> Get(n.left).left,
          right |-> Some([key |-> n.key, value |-> n.value, level |-> n.level,
                          left |-> Get(n.left).right, right |-> n.right])]
    ELSE n

\* Mutant of Older_split: the level becomes the own level + 1 and the
\* allocated node takes the level of the right child.
Older_split_levels_exchanged(n) ==
    IF is_empty(n) \/ is_empty(Get(n.right)) \/ is_empty(Get(Get(n.right).right))
    THEN n
    ELSE IF Get(Get(n.right).right).level = n.level
    THEN [key |-> Get(n.right).key,
          value |-> Get(n.right).value,
          level |-> n.level + 1,
          left |-> Some([key |-> n.key, value |-> n.value,
                         level |-> Get(n.right).level - 1,
                         left |-> n.left, right |-> Get(n.right).left]),
          right |-> Get(n.right).right]
    ELSE n

\* Node.split
Older_split(n) ==
    IF is_empty(n) \/ is_empty(Get(n.right)) \/ is_empty(Get(Get(n.right).right))
    THEN n
    ELSE IF Get(Get(n.right).right).level = n.level
    THEN [key |-> Get(n.right).key,
          value |-> Get(n.right).value,
          level |-> Get(n.right).level + 1,
          left |-> Some([key |-> n.key, value |-> n.value, level |-> n.level,
                         left |-> n.left, right |-> Get(n.right).left]),
          right |-> Get(n.right).right]
    ELSE n

\* Node.adjust_after_deletion
Older_adjust_after_deletion(n) ==
    IF is_empty(n) THEN n
    ELSE LET level == min(Get(n.left).level, Get(n.right).level) + 1
             \* if level < self.level: lower self.level and self.right.level
             lower(s) ==
                 IF level < s.level
                 THEN [s EXCEPT !.level = level,
                                !.right = IF level < Get(s.right).level
                                          THEN Some([Get(s.right) EXCEPT
                                                        !.level = level])
                                          ELSE s.right]
                 ELSE s
             \* self.right.skew()
             skew_right(s) == [s EXCEPT !.right = Some(Older_skew(Get(s.right)))]
             \* if not self.right.is_empty(): self.right.right.skew()
             skew_right_right(s) ==
                 IF ~is_empty(Get(s.right))
                 THEN [s EXCEPT !.right = Some([Get(s.right) EXCEPT
                          !.right = Some(Older_skew(Get(Get(s.right).right)))])]
                 ELSE s
             \* self.right.split()
             split_right(s) == [s EXCEPT !.right = Some(Older_split(Get(s.right)))]
         IN  split_right(Older_split(skew_right_right(skew_right(Older_skew(
                 lower(n))))))

RECURSIVE Older_insert(_, _, _)
\* Node.insert; the result is the node afterwards and the returned bool
Older_insert(n, key, value) ==
    IF is_empty(n)
    THEN [node |-> _make_leaf(key, value), ret |-> FALSE]
    ELSE LET cr == IF Get(n.key) < key THEN "SMALLER"
                   ELSE IF Get(n.key) = key THEN "EQUAL" ELSE "GREATER"
             sub == IF cr = "GREATER" THEN Older_insert(Get(n.left), key, value)
                    ELSE Older_insert(Get(n.right), key, value)
             a == IF cr = "GREATER" THEN [n EXCEPT !.left = Some(sub.node)]
                  ELSE IF cr = "SMALLER" THEN [n EXCEPT !.right = Some(sub.node)]
                  ELSE n
             was_key_present == IF cr = "EQUAL" THEN TRUE ELSE sub.ret
         IN  [node |-> IF ~was_key_present THEN Older_split(Older_skew(a)) ELSE a,
              ret |-> was_key_present]

RECURSIVE Older_delete(_, _)
\* Node.delete with is_leaf, replace_with_successor and
\* replace_with_predecessor; the result is the node afterwards and the
\* returned value
Older_delete(n, key) ==
    IF is_empty(n)
    THEN [node |-> n, ret |-> None]
    ELSE LET cr == IF Get(n.key) < key THEN "SMALLER"
                   ELSE IF Get(n.key) = key THEN "EQUAL" ELSE "GREATER"
             sub == IF cr = "GREATER" THEN Older_delete(Get(n.left), key)
                    ELSE Older_delete(Get(n.right), key)
             is_leaf == is_empty(Get(n.left)) /\ is_empty(Get(n.right))
             replace_with_successor ==
                 [n EXCEPT !.key = Leftmost(Get(n.right)).key,
                           !.value = Leftmost(Get(n.right)).value,
                           !.right = Some(Older_delete(Get(n.right),
                                        Get(Leftmost(Get(n.right)).key)).node)]
             replace_with_predecessor ==
                 [n EXCEPT !.key = Rightmost(Get(n.left)).key,
                           !.value = Rightmost(Get(n.left)).value,
                           !.left = Some(Older_delete(Get(n.left),
                                       Get(Rightmost(Get(n.left)).key)).node)]
             a == IF cr = "GREATER" THEN [n EXCEPT !.left = Some(sub.node)]
                  ELSE IF cr = "SMALLER" THEN [n EXCEPT !.right = Some(sub.node)]
                  ELSE IF is_leaf THEN EmptyNode
                  ELSE IF is_empty(Get(n.left)) THEN replace_with_successor
                  ELSE replace_with_predecessor
         IN  [node |-> Older_adjust_after_deletion(a),
              ret |-> IF cr = "EQUAL" THEN n.value ELSE sub.ret]

RECURSIVE Older_pop_smallest(_)
\* Node.pop_smallest; the result is the node afterwards and the returned
\* pair, None for an empty node
Older_pop_smallest(n) ==
    IF is_empty(n)
    THEN [node |-> n, ret |-> None]
    ELSE LET goLeft == ~is_empty(Get(n.left))
             sub == Older_pop_smallest(Get(n.left))
             is_leaf == is_empty(Get(n.left)) /\ is_empty(Get(n.right))
             replace_with_successor ==
                 [n EXCEPT !.key = Leftmost(Get(n.right)).key,
                           !.value = Leftmost(Get(n.right)).value,
                           !.right = Some(Older_delete(Get(n.right),
                                        Get(Leftmost(Get(n.right)).key)).node)]
             a == IF goLeft THEN [n EXCEPT !.left = Some(sub.node)]
                  ELSE IF is_leaf THEN EmptyNode
                  ELSE replace_with_successor
         IN  [node |-> Older_adjust_after_deletion(a),
              ret |-> IF goLeft THEN sub.ret ELSE Some(<<Get(n.key), n.value>>)]

\* ---------------------------------------------------------------- state

VARIABLES
    wrapper,    \* which class the tree is: "BinaryTree" or "BinaryTreeDict"
    root,       \* the _root Node of the tree
    call,       \* the last call: its name, arguments, result
    before,     \* _root as it was when the last call started
    ref,        \* reference dictionary the same calls were applied to
    stepsA,     \* how many calls of Scenario A the history so far consists of
    polygon,    \* the DoublyConnectedSimplePolygon and the objects it made
    pcall,      \* the last call on the polygon: its name and result, the
                \* point of add_vertex, the edges of an accepted add_diagonal
    pbefore,    \* the polygon as it was when the last call started
    diagonals,  \* the connection edges of the add_diagonal calls that succeeded
    pc,         \* where try_from_unordered_points is: "while", "for",
                \* "construct", "returned", "raised" ("idle": not called)
    unordered,  \* its argument points, as a list
    path,       \* its local path
    found_improvement,  \* its local found_improvement
    index_i,    \* its loop variable i
    index_j,    \* its loop variable j
    reversals,  \* how many sub-paths it has reversed so far
    sequence,   \* the PointSequence
    scall,      \* the last call on the PointSequence: its name, arguments,
                \* exception
    sbefore,    \* the PointSequence as it was when the last call started
    older,      \* the root Node of the older BinaryTree (modules/data_structures.py)
    other,      \* a second PointSequence, the right operand of __add__
    added,      \* what sequence + other has left, None before it is called
    hull,       \* the convex-hull Polygon
    intersections,  \* the Intersections object
    handle,     \* the InstanceHandle: its kind, _instance and _cached_point
    hcall,      \* the last call on the handle: its name, argument and result
    hbefore     \* the handle as it was when the last call started

treevars == <<wrapper, root, call, before, ref, stepsA>>
polyvars == <<polygon, pcall, pbefore, diagonals>>
optvars == <<pc, unordered, path, found_improvement, index_i, index_j, reversals>>
seqvars == <<sequence, scall, sbefore>>
xvars == <<older, other, added, hull, intersections, handle, hcall, hbefore>>
vars == <<wrapper, root, call, before, ref, stepsA, polygon, pcall, pbefore, diagonals, pc, unordered, path, found_improvement, index_i, index_j, reversals, sequence, scall, sbefore, older, other, added, hull, intersections, handle, hcall, hbefore>>

\* A new PointSequence, not called yet.
SeqNew ==
    /\ sequence = PointSequence
    /\ scall = [op |-> "init"]
    /\ sbefore = PointSequence

\* The objects of the other modules are new, none of them called yet.
XIdle ==
    /\ older = EmptyNode
    /\ other = PointSequence
    /\ added = None
    /\ hull = Polygon
    /\ intersections = Intersections
    /\ handle = [kind |-> "none"]
    /\ hcall = [op |-> "init"]
    /\ hbefore = [kind |-> "none"]

\* try_from_unordered_points has not been called.
OptIdle ==
    /\ pc = "idle"
    /\ unordered = <<>>
    /\ path = <<>>
    /\ found_improvement = FALSE
    /\ index_i = 0
    /\ index_j = 0
    /\ reversals = 0

\* Scenario A inserts these keys in this order into an empty tree.
ScenarioA == <<5, 3, 8, 1, 4>>

\* stepsA after a call: the calls so far are exactly the first stepsA' inserts
\* of Scenario A, or (-1) they are not a prefix of it.
NextStepsA(op, key) ==
    IF /\ stepsA >= 0 /\ stepsA < Len(ScenarioA)
       /\ op = "insert" /\ key = ScenarioA[stepsA + 1]
    THEN stepsA + 1
    ELSE -1

\* The query items: every range within 0..9 of at most MaxSpan + 1 numbers.
Items == {it \in (0..9) \X (0..9) : it[1] <= it[2] /\ it[2] - it[1] <= MaxSpan}

\* The keys and values the tree is called with: a BinaryTree stores None.
CallKeys == IF wrapper = "BinaryTree" THEN Keys ELSE DictKeys
InsertValues == IF wrapper = "BinaryTree" THEN {None} ELSE Values

\* The reference dictionary: a function from the stored keys to their values.
EmptyRef == [k \in {} |-> None]
RefMin(d) == CHOOSE k \in DOMAIN d : \A j \in DOMAIN d : k <= j
RefWithout(d, key) == [k \in DOMAIN d \ {key} |-> d[k]]
RefWith(d, key, value) == [k \in DOMAIN d \cup {key} |-> IF k = key THEN value ELSE d[k]]

Init ==
    /\ wrapper \in {"BinaryTree", "BinaryTreeDict"}
    /\ root = EmptyNode
    /\ call = [op |-> "init"]
    /\ before = EmptyNode
    /\ ref = EmptyRef
    /\ stepsA = 0
    /\ polygon = clear
    /\ pcall = [op |-> "init"]
    /\ pbefore = clear
    /\ diagonals = <<>>
    /\ OptIdle
    /\ SeqNew
    /\ XIdle

Insert ==
    \E key \in CallKeys : \E value \in InsertValues :
        LET r == IF wrapper = "BinaryTree" THEN BinaryTree_insert(root, key)
                 ELSE BinaryTreeDict_insert(root, key, value)
        IN  /\ root' = r.node
            /\ call' = [op |-> "insert", key |-> key, value |-> value,
                        ret |-> r.ret, raises |-> r.raises]
            /\ before' = root
            /\ ref' = IF key \in DOMAIN ref THEN ref ELSE RefWith(ref, key, value)
            /\ stepsA' = NextStepsA("insert", key)
            /\ UNCHANGED <<wrapper, polyvars, optvars, seqvars, xvars>>

Update ==
    /\ wrapper = "BinaryTreeDict"
    /\ \E key \in CallKeys : \E value_updater \in Updaters :
        LET r == BinaryTreeDict_update(root, key, value_updater)
        IN  /\ root' = r.node
            /\ call' = [op |-> "update", key |-> key, value_updater |-> value_updater,
                        ret |-> r.ret, raises |-> r.raises]
            /\ before' = root
            /\ ref' = RefWith(ref, key, IF key \in DOMAIN ref
                                        THEN value_updater[ref[key]]
                                        ELSE value_updater[None])
            /\ stepsA' = NextStepsA("update", key)
            /\ UNCHANGED <<wrapper, polyvars, optvars, seqvars, xvars>>

Delete ==
    \E key \in CallKeys :
        LET r == IF wrapper = "BinaryTree" THEN BinaryTree_delete(root, key)
                 ELSE BinaryTreeDict_delete(root, key)
        IN  /\ root' = r.node
            /\ call' = [op |-> "delete", key |-> key,
                        ret |-> r.ret, raises |-> r.raises]
            /\ before' = root
            /\ ref' = RefWithout(ref, key)
            /\ stepsA' = NextStepsA("delete", key)
            /\ UNCHANGED <<wrapper, polyvars, optvars, seqvars, xvars>>

PopFirst ==
    LET r == IF wrapper = "BinaryTree" THEN BinaryTree_pop_first(root)
             ELSE BinaryTreeDict_pop_first(root)
    IN  /\ root' = r.node
        /\ call' = [op |-> "pop_first", ret |-> r.ret, raises |-> r.raises]
        /\ before' = root
        /\ ref' = IF DOMAIN ref = {} THEN ref ELSE RefWithout(ref, RefMin(ref))
        /\ stepsA' = NextStepsA("pop_first", 0)
        /\ UNCHANGED <<wrapper, polyvars, optvars, seqvars, xvars>>

SearchMatching ==
    \E item \in Items :
        LET r == IF wrapper = "BinaryTree" THEN BinaryTree_search_matching(root, item)
                 ELSE BinaryTreeDict_search_matching(root, item)
        IN  /\ root' = r.node
            /\ call' = [op |-> "search_matching", item |-> item,
                        ret |-> r.ret, raises |-> r.raises]
            /\ before' = root
            /\ stepsA' = NextStepsA("search_matching", 0)
            /\ UNCHANGED <<wrapper, ref, polyvars, optvars, seqvars, xvars>>

SearchPredecessor ==
    \E item \in Items :
        LET r == IF wrapper = "BinaryTree" THEN BinaryTree_search_predecessor(root, item)
                 ELSE BinaryTreeDict_search_predecessor(root, item)
        IN  /\ root' = r.node
            /\ call' = [op |-> "search_predecessor", item |-> item,
                        ret |-> r.ret, raises |-> r.raises]
            /\ before' = root
            /\ stepsA' = NextStepsA("search_predecessor", 0)
            /\ UNCHANGED <<wrapper, ref, polyvars, optvars, seqvars, xvars>>

SearchSuccessor ==
    \E item \in Items :
        LET r == IF wrapper = "BinaryTree" THEN BinaryTree_search_successor(root, item)
                 ELSE BinaryTreeDict_search_successor(root, item)
        IN  /\ root' = r.node
            /\ call' = [op |-> "search_successor", item |-> item,
                        ret |-> r.ret, raises |-> r.raises]
            /\ before' = root
            /\ stepsA' = NextStepsA("search_successor", 0)
            /\ UNCHANGED <<wrapper, ref, polyvars, optvars, seqvars, xvars>>

Next ==
    \/ Insert
    \/ Update
    \/ Delete
    \/ PopFirst
    \/ SearchMatching
    \/ SearchPredecessor
    \/ SearchSuccessor

Spec == Init /\ [][Next]_vars

\* ------------------------------------------------- the polygon under calls

\* The points add_vertex is called with: the square of Scenario B, its
\* centre (Scenario C).
Points == {<<0, 0>>, <<4, 0>>, <<4, 4>>, <<0, 4>>, <<2, 2>>}

\* Scenario B adds these points in this order to an empty polygon.
ScenarioB == <<(<<0, 0>>), (<<4, 0>>), (<<4, 4>>), (<<0, 4>>)>>

RECURSIVE Reach(_, _)
\* The half-edges one gets at from the half-edges S through twin, prev,
\* next and the incident edge of the origin.
Reach(p, S) ==
    LET T == S \cup {p.edges[e].twin : e \in S} \cup {p.edges[e].prev : e \in S}
               \cup {p.edges[e].next : e \in S}
               \cup {p.vertices[p.edges[e].origin].edge : e \in S}
    IN  IF T = S THEN S ELSE Reach(p, T)

\* The half-edges of the polygon a caller can hold: all other objects are
\* referenced by nothing and no longer exist.
HalfEdges(p) ==
    IF p.closing_edge = None THEN {}
    ELSE Reach(p, {Get(p.closing_edge), p.vertices[Get(p.topmost_vertex)].edge})

\* The points of the vertices added so far, in the order of their creation.
PointsAdded(p) == [v \in 1..Len(p.vertices) |-> p.vertices[v].point]

\* Before any polygon call: next to the new polygon an empty BinaryTree that
\* no polygon call touches.
PolyInit ==
    /\ wrapper = "BinaryTree"
    /\ root = EmptyNode
    /\ call = [op |-> "init"]
    /\ before = EmptyNode
    /\ ref = EmptyRef
    /\ stepsA = 0
    /\ polygon = clear
    /\ pcall = [op |-> "init"]
    /\ pbefore = clear
    /\ diagonals = <<>>
    /\ OptIdle
    /\ SeqNew
    /\ XIdle

\* add_vertex at any of the points; at most MaxVertices vertices are made.
AddVertex ==
    \E point \in Points :
        LET r == add_vertex(polygon, point)
        IN  /\ r.raises = None => Len(polygon.vertices) < MaxVertices
            /\ polygon' = r.polygon
            /\ pcall' = [op |-> "add_vertex", point |-> point,
                         ret |-> r.ret, raises |-> r.raises]
            /\ pbefore' = polygon
            /\ UNCHANGED diagonals
            /\ UNCHANGED <<treevars, optvars, seqvars, xvars>>

\* add_diagonal at any two half-edges of the polygon, until MaxDiagonals
\* calls have succeeded.
AddDiagonal ==
    /\ Len(diagonals) < MaxDiagonals
    /\ \E connection_edge1 \in HalfEdges(polygon) :
         \E connection_edge2 \in HalfEdges(polygon) :
           LET r == add_diagonal(polygon, connection_edge1, connection_edge2)
           IN  /\ polygon' = r.polygon
               /\ pcall' = [op |-> "add_diagonal",
                            connection_edges |->
                                IF r.raises = None
                                THEN Some(<<connection_edge1, connection_edge2>>)
                                ELSE None,
                            ret |-> r.ret, raises |-> r.raises]
               /\ pbefore' = polygon
               /\ diagonals' = IF r.raises = None
                               THEN Append(diagonals,
                                           <<connection_edge1, connection_edge2>>)
                               ELSE diagonals
               /\ UNCHANGED <<treevars, optvars, seqvars, xvars>>

PolyNext ==
    \/ AddVertex
    \/ AddDiagonal

PolySpec == PolyInit /\ [][PolyNext]_vars


\* ------------------------------- try_from_unordered_points, step by step

\* The call has run "path = list(points)", "n = len(path)" and
\* "found_improvement = True" on a list of at most MaxPath points of Points,
\* repeated points included.
TwoOptInit ==
    /\ wrapper = "BinaryTree"
    /\ root = EmptyNode
    /\ call = [op |-> "init"]
    /\ before = EmptyNode
    /\ ref = EmptyRef
    /\ stepsA = 0
    /\ polygon = clear
    /\ pcall = [op |-> "init"]
    /\ pbefore = clear
    /\ diagonals = <<>>
    /\ \E n \in 0..MaxPath : unordered \in [1..n -> Points]
    /\ path = unordered
    /\ found_improvement = TRUE
    /\ index_i = 0
    /\ index_j = 0
    /\ reversals = 0
    /\ pc = "while"
    /\ SeqNew
    /\ XIdle

\* "while found_improvement:" is entered: the flag is lowered and the for
\* loops start at i = 0, j = 1 (they are empty for fewer than 2 points).
StartPass ==
    /\ pc = "while"
    /\ found_improvement
    /\ found_improvement' = FALSE
    /\ pc' = IF Len(path) >= 2 THEN "for" ELSE "while"
    /\ index_i' = IF Len(path) >= 2 THEN 0 ELSE index_i
    /\ index_j' = IF Len(path) >= 2 THEN 1 ELSE index_j
    /\ UNCHANGED <<unordered, path, reversals>>
    /\ UNCHANGED <<treevars, polyvars, seqvars, xvars>>

\* "while found_improvement:" is left.
EndLoop ==
    /\ pc = "while"
    /\ ~found_improvement
    /\ pc' = "construct"
    /\ UNCHANGED <<unordered, path, found_improvement, index_i, index_j, reversals>>
    /\ UNCHANGED <<treevars, polyvars, seqvars, xvars>>

\* The for loops move on from i, j: the next j, else the next i, else the
\* pass is over.
NextPair ==
    /\ pc' = IF index_j < Len(path) - 1 \/ index_i < Len(path) - 2
             THEN "for" ELSE "while"
    /\ index_i' = IF index_j >= Len(path) - 1 /\ index_i < Len(path) - 2
                  THEN index_i + 1 ELSE index_i
    /\ index_j' = IF index_j < Len(path) - 1 THEN index_j + 1
                  ELSE IF index_i < Len(path) - 2 THEN index_i + 2
                  ELSE index_j

\* The loop body finds the sub-path worth reversing.
ForReverse ==
    /\ pc = "for"
    /\ found_shorter(path, index_i, index_j)
    /\ path' = reverse_subpath(path, index_i, index_j)
    /\ found_improvement' = TRUE
    /\ NextPair
    /\ reversals' = reversals + 1
    /\ UNCHANGED unordered
    /\ UNCHANGED <<treevars, polyvars, seqvars, xvars>>

\* The loop body finds nothing to do.
ForKeep ==
    /\ pc = "for"
    /\ ~found_shorter(path, index_i, index_j)
    /\ NextPair
    /\ UNCHANGED <<unordered, path, found_improvement, reversals>>
    /\ UNCHANGED <<treevars, polyvars, seqvars, xvars>>

\* "return DoublyConnectedSimplePolygon(path)": the polygon is returned, or
\* the exception of its constructor leaves the call.
Construct ==
    /\ pc = "construct"
    /\ LET r == DoublyConnectedSimplePolygon(path)
       IN  /\ pc' = IF r.raises = None THEN "returned" ELSE "raised"
           /\ polygon' = IF r.raises = None THEN r.polygon ELSE polygon
           /\ pcall' = [op |-> "try_from_unordered_points", raises |-> r.raises]
    /\ UNCHANGED <<pbefore, diagonals>>
    /\ UNCHANGED <<unordered, path, found_improvement, index_i, index_j, reversals>>
    /\ UNCHANGED <<treevars, seqvars, xvars>>

\* A step of the while loop and the for loops in it.
TwoOptLoop ==
    \/ StartPass
    \/ EndLoop
    \/ ForReverse
    \/ ForKeep

TwoOptNext ==
    \/ TwoOptLoop
    \/ Construct

TwoOptSpec == TwoOptInit /\ [][TwoOptNext]_vars

\* The call is one sequential run: a step of the loop that can be taken is
\* taken.
TwoOptFairSpec == TwoOptSpec /\ WF_vars(TwoOptLoop)

\* ------------------------------------------- the PointSequence under calls

\* The points a PointSequence is called with.
SeqPoints == {<<0, 0>>, <<4, 0>>, <<4, 4>>}

\* The keys __delitem__ is called with: ints from -MaxIndex to 1, and an
\* object that is no int.
DelKeys ==
    {[int |-> TRUE, value |-> k] : k \in (0 - MaxIndex)..1}
        \cup {[int |-> FALSE, value |-> 0]}

\* Before any call: a new PointSequence, next to an empty tree and a new
\* polygon that no PointSequence call touches.
SeqInit ==
    /\ wrapper = "BinaryTree"
    /\ root = EmptyNode
    /\ call = [op |-> "init"]
    /\ before = EmptyNode
    /\ ref = EmptyRef
    /\ stepsA = 0
    /\ polygon = clear
    /\ pcall = [op |-> "init"]
    /\ pbefore = clear
    /\ diagonals = <<>>
    /\ OptIdle
    /\ SeqNew
    /\ XIdle

\* The call op with arguments args has left r; calls go on until the event
\* log holds MaxEvents events.
SeqCalled(op, args, r) ==
    /\ Len(r.value.animation_events) <= MaxEvents
    /\ sequence' = r.value
    /\ scall' = [op |-> op, args |-> args, raises |-> r.raises]
    /\ sbefore' = sequence
    /\ UNCHANGED <<treevars, polyvars, optvars, xvars>>

SeqAppend ==
    \E point \in SeqPoints :
        SeqCalled("append", <<point>>, PointSequence_append(sequence, point))

SeqPop == SeqCalled("pop", <<>>, PointSequence_pop(sequence))

SeqClear == SeqCalled("clear", <<>>, PointSequence_clear(sequence))

SeqAnimate ==
    \E point \in SeqPoints :
        SeqCalled("animate", <<point>>, PointSequence_animate(sequence, point))

SeqResetAnimations ==
    SeqCalled("reset_animations", <<>>, PointSequence_reset_animations(sequence))

SeqDelItem ==
    \E key \in DelKeys :
        SeqCalled("__delitem__", <<key>>, PointSequence_delitem(sequence, key))

SeqNext ==
    \/ SeqAppend
    \/ SeqPop
    \/ SeqClear
    \/ SeqAnimate
    \/ SeqResetAnimations
    \/ SeqDelItem

SeqSpec == SeqInit /\ [][SeqNext]_vars

\* ----------------------------------------- single rotations of the AA-tree

RECURSIVE NodesAt(_, _)
\* The nodes _skew and _split can be applied to while insert or delete
\* rebalance: trees of at most depth levels of nodes rooted at position
\* pos (the root is 1, the children of pos are 2 pos and 2 pos + 1), every
\* node with any level of 1..MaxLevel, a value of its own and the key that
\* numbers the positions of three complete levels in order.
NodesAt(depth, pos) ==
    LET key == <<4, 2, 6, 1, 3, 5, 7>>[pos]
    IN  IF depth = 0 THEN {EmptyNode}
        ELSE {EmptyNode} \cup
             {[key |-> Some(key), value |-> 8 - key, level |-> l,
               left |-> Some(a), right |-> Some(b)] :
                  l \in 1..MaxLevel,
                  a \in NodesAt(depth - 1, 2 * pos),
                  b \in NodesAt(depth - 1, 2 * pos + 1)}

\* The node is root; call and before record the rotation applied to it.
RotInit ==
    /\ wrapper = "BinaryTreeDict"
    /\ root \in NodesAt(3, 1) \ {EmptyNode}
    /\ call = [op |-> "init"]
    /\ before = EmptyNode
    /\ ref = EmptyRef
    /\ stepsA = 0
    /\ polygon = clear
    /\ pcall = [op |-> "init"]
    /\ pbefore = clear
    /\ diagonals = <<>>
    /\ OptIdle
    /\ SeqNew
    /\ XIdle

\* root._skew()
Skew ==
    /\ root' = _skew(root)
    /\ call' = [op |-> "_skew"]
    /\ before' = root
    /\ UNCHANGED <<wrapper, ref, stepsA, polyvars, optvars, seqvars, xvars>>

\* root._split()
Split ==
    /\ root' = _split(root)
    /\ call' = [op |-> "_split"]
    /\ before' = root
    /\ UNCHANGED <<wrapper, ref, stepsA, polyvars, optvars, seqvars, xvars>>

RotNext ==
    \/ Skew
    \/ Split

RotSpec == RotInit /\ [][RotNext]_vars

\* --------------------------------------------- the sum of two PointSequences

\* operand is "sequence" or "other"; the call has left r on it.  Calls go
\* on until sequence + other is taken.
OperandCalled(operand, r) ==
    /\ added = None
    /\ Len(r.value.animation_events) <= MaxOperandEvents
    /\ sequence' = IF operand = "sequence" THEN r.value ELSE sequence
    /\ other' = IF operand = "other" THEN r.value ELSE other
    /\ UNCHANGED <<treevars, polyvars, optvars, scall, sbefore, added,
                   older, hull, intersections, handle, hcall, hbefore>>

\* The operand a call is made on.
Operand(operand) == IF operand = "sequence" THEN sequence ELSE other

OperandAppend ==
    \E operand \in {"sequence", "other"} : \E point \in SeqPoints :
        OperandCalled(operand, PointSequence_append(Operand(operand), point))

OperandPop ==
    \E operand \in {"sequence", "other"} :
        OperandCalled(operand, PointSequence_pop(Operand(operand)))

OperandClear ==
    \E operand \in {"sequence", "other"} :
        OperandCalled(operand, PointSequence_clear(Operand(operand)))

OperandAnimate ==
    \E operand \in {"sequence", "other"} : \E point \in SeqPoints :
        OperandCalled(operand, PointSequence_animate(Operand(operand), point))

OperandDelItem ==
    \E operand \in {"sequence", "other"} : \E key \in DelKeys :
        OperandCalled(operand, PointSequence_delitem(Operand(operand), key))

\* sequence + other, or sequence + a list that is no PointSequence
Add ==
    /\ added = None
    /\ \E o \in {other, [points |-> other.points]} :
           added' = Some(PointSequence_add(sequence, o))
    /\ UNCHANGED <<treevars, polyvars, optvars, seqvars, other,
                   older, hull, intersections, handle, hcall, hbefore>>

AddNext ==
    \/ OperandAppend
    \/ OperandPop
    \/ OperandClear
    \/ OperandAnimate
    \/ OperandDelItem
    \/ Add

\* Before any call sequence and other are new PointSequences, as in SeqInit.
AddSpec == SeqInit /\ [][AddNext]_vars

\* ----------------------------------------- the Intersections under add calls

\* The points add is called with, in millionths: (0, 0), two points that
\* round to it, and two points that round to (0.00001, 0) and (0, 0.00001).
IntersectionPoints == {<<0, 0>>, <<4, 0>>, <<-4, 3>>, <<10, 0>>, <<0, 14>>}

\* The line segments add is called with.
IntersectionSegments ==
    {LineSegment(<<0, 0>>, <<4, 4>>), LineSegment(<<0, 4>>, <<4, 0>>)}

\* intersections.add(intersection_point, line_segments)
IntersectionsAdd ==
    \E intersection_point \in IntersectionPoints :
        \E line_segments \in SUBSET IntersectionSegments :
            LET r == Intersections_add(intersections, intersection_point,
                                       line_segments)
            IN  /\ Len(r.animation_events) <= MaxIntersectionEvents
                /\ intersections' = r
                /\ UNCHANGED <<treevars, polyvars, optvars, seqvars, older,
                               other, added, hull, handle, hcall, hbefore>>

\* Before any call intersections is a new Intersections object, as in SeqInit.
IntersectionsSpec == SeqInit /\ [][IntersectionsAdd]_vars

\* ------------------------------------- the convex-hull Polygon under calls

\* The call has left r on the Polygon; calls go on until the event list
\* holds MaxHullEvents events.
HullCalled(r) ==
    /\ Len(r.events) <= MaxHullEvents
    /\ hull' = r
    /\ UNCHANGED <<treevars, polyvars, optvars, seqvars, older, other, added,
                   intersections, handle, hcall, hbefore>>

\* hull.append(point); extend is a loop of such calls
HullAppend == \E point \in SeqPoints : HullCalled(Polygon_append(hull, point))

\* hull.pop()
HullPop == HullCalled(Polygon_pop(hull).value)

\* del hull[key]
HullDelItem == \E key \in DelKeys : HullCalled(Polygon_delitem(hull, key).value)

HullNext ==
    \/ HullAppend
    \/ HullPop
    \/ HullDelItem

\* Before any call hull is a new Polygon, as in SeqInit.
HullSpec == SeqInit /\ [][HullNext]_vars

\* --------------------------------- the two BinaryTree implementations, side
\* by side

\* Before any call: both trees are empty.
PairInit ==
    /\ wrapper = "BinaryTreeDict"
    /\ root = EmptyNode
    /\ call = [op |-> "init"]
    /\ before = EmptyNode
    /\ ref = EmptyRef
    /\ stepsA = 0
    /\ polygon = clear
    /\ pcall = [op |-> "init"]
    /\ pbefore = clear
    /\ diagonals = <<>>
    /\ OptIdle
    /\ SeqNew
    /\ XIdle

\* Both trees are called with the same arguments: the BinaryTreeDict of
\* notebooks/modules leaves newer, the BinaryTree of modules leaves old.
PairCalled(op, key, newer, old) ==
    /\ root' = newer.node
    /\ older' = old.node
    /\ call' = [op |-> op, key |-> key]
    /\ before' = root
    /\ UNCHANGED <<wrapper, ref, stepsA, polyvars, optvars, seqvars, other,
                   added, hull, intersections, handle, hcall, hbefore>>

\* insert(key, value) on both
PairInsert ==
    \E key \in 1..MaxPairKey : \E value \in Vals :
        PairCalled("insert", key, BinaryTreeDict_insert(root, key, value),
                   Older_insert(older, key, value))

\* delete(key) on both
PairDelete ==
    \E key \in 1..MaxPairKey :
        PairCalled("delete", key, BinaryTreeDict_delete(root, key),
                   Older_delete(older, key))

\* pop_first() on the one, pop_smallest() on the other
PairPopFirst ==
    PairCalled("pop_first", 0, BinaryTreeDict_pop_first(root),
               Older_pop_smallest(older))

PairNext ==
    \/ PairInsert
    \/ PairDelete
    \/ PairPopFirst

PairSpec == PairInit /\ [][PairNext]_vars

\* --------------------------------------- the instance handles under calls
\* An InstanceHandle value is [kind, instance, cached_point]: its class,
\* its _instance (a set of points, a set of line segments or a polygon) and
\* the _cached_point of a LineSegmentSetInstance, None in the other classes.

\* PointSetInstance.__init__, LineSegmentSetInstance.__init__,
\* SimplePolygonInstance.__init__
InstanceHandle(kind) ==
    [kind |-> kind,
     instance |-> IF kind = "SimplePolygonInstance" THEN clear ELSE {},
     cached_point |-> None]

\* add_point of the three classes: the handle afterwards and the returned
\* bool
add_point(h, point) ==
    IF h.kind = "PointSetInstance"
    THEN IF point \in h.instance THEN [handle |-> h, ret |-> FALSE]
         ELSE [handle |-> [h EXCEPT !.instance = @ \cup {point}], ret |-> TRUE]
    ELSE IF h.kind = "LineSegmentSetInstance"
    THEN IF h.cached_point = None
         THEN [handle |-> [h EXCEPT !.cached_point = Some(point)], ret |-> TRUE]
         ELSE IF Get(h.cached_point) = point
         THEN [handle |-> h, ret |-> FALSE]
         ELSE IF LineSegment(Get(h.cached_point), point) \in h.instance
         THEN [handle |-> h, ret |-> FALSE]
         ELSE [handle |-> [h EXCEPT !.instance = @ \cup
                               {LineSegment(Get(h.cached_point), point)},
                                    !.cached_point = None],
               ret |-> TRUE]
    ELSE IF add_vertex(h.instance, point).raises # None
    THEN [handle |-> h, ret |-> FALSE]
    ELSE [handle |-> [h EXCEPT !.instance = add_vertex(h.instance, point).polygon],
          ret |-> TRUE]

\* clear of the three classes
InstanceHandle_clear(h) ==
    [h EXCEPT !.instance = IF h.kind = "SimplePolygonInstance" THEN clear ELSE {},
              !.cached_point = None]

\* size of the three classes
size(h) ==
    IF h.kind = "SimplePolygonInstance" THEN len(h.instance)
    ELSE Cardinality(h.instance)

\* The orders a set can be iterated in.
Orders(S) ==
    {f \in [1..Cardinality(S) -> S] :
        \A a, b \in 1..Cardinality(S) : f[a] = f[b] => a = b}

\* extract_points_from_raw_instance of the three classes: the lists it can
\* return, one per order the set is iterated in
extract_points_from_raw_instance(h) ==
    IF h.kind = "PointSetInstance" THEN Orders(h.instance)
    ELSE IF h.kind = "LineSegmentSetInstance"
    THEN {[k \in 1..(2 * Len(f)) |->
              IF k % 2 = 1 THEN f[(k + 1) \div 2].upper ELSE f[k \div 2].lower] :
                  f \in Orders(h.instance)}
    ELSE {[k \in 1..Len(vertices(h.instance)) |->
              h.instance.vertices[vertices(h.instance)[k]].point]}

RECURSIVE add_points(_, _)
\* for point in instance_points: self.add_point(point)
add_points(h, instance_points) ==
    IF instance_points = <<>> THEN h
    ELSE add_points(add_point(h, Head(instance_points)).handle,
                    Tail(instance_points))

\* InstanceHandle.run_algorithm, after instance_points were extracted: the
\* algorithm reads the instance or empties it, then the handle is cleared
\* and given the points again
run_algorithm(h, instance_points, algorithm) ==
    LET ran == IF algorithm = "empties"
               THEN [h EXCEPT !.instance =
                        IF h.kind = "SimplePolygonInstance" THEN clear ELSE {}]
               ELSE h
    IN  add_points(InstanceHandle_clear(ran), instance_points)

\* The handle is made: one of the three classes.
HandleNew ==
    /\ handle.kind = "none"
    /\ \E kind \in {"PointSetInstance", "LineSegmentSetInstance",
                   "SimplePolygonInstance"} :
           handle' = InstanceHandle(kind)
    /\ hcall' = [op |-> "__init__"]
    /\ hbefore' = handle
    /\ UNCHANGED <<treevars, polyvars, optvars, seqvars, older, other, added,
                   hull, intersections>>

\* handle.add_point(point), while size() is at most MaxInstanceSize
HandleAddPoint ==
    /\ handle.kind # "none"
    /\ \E point \in Points :
           /\ size(add_point(handle, point).handle) <= MaxInstanceSize
           /\ handle' = add_point(handle, point).handle
           /\ hcall' = [op |-> "add_point", point |-> point,
                        ret |-> add_point(handle, point).ret]
    /\ hbefore' = handle
    /\ UNCHANGED <<treevars, polyvars, optvars, seqvars, older, other, added,
                   hull, intersections>>

\* handle.clear()
HandleClear ==
    /\ handle.kind # "none"
    /\ handle' = InstanceHandle_clear(handle)
    /\ hcall' = [op |-> "clear"]
    /\ hbefore' = handle
    /\ UNCHANGED <<treevars, polyvars, optvars, seqvars, older, other, added,
                   hull, intersections>>

\* handle.run_algorithm(algorithm), the algorithm returning
HandleRunAlgorithm ==
    /\ handle.kind # "none"
    /\ \E instance_points \in extract_points_from_raw_instance(handle) :
           \E algorithm \in {"reads", "empties"} :
               /\ handle' = run_algorithm(handle, instance_points, algorithm)
               /\ hcall' = [op |-> "run_algorithm", algorithm |-> algorithm]
    /\ hbefore' = handle
    /\ UNCHANGED <<treevars, polyvars, optvars, seqvars, older, other, added,
                   hull, intersections>>

HandleNext ==
    \/ HandleNew
    \/ HandleAddPoint
    \/ HandleClear
    \/ HandleRunAlgorithm

\* Before the handle is made nothing has been called, as in SeqInit.
HandleSpec == SeqInit /\ [][HandleNext]_vars

\* ------------------------------------------------- what the claims read

RECURSIVE InOrder(_)
\* The in-order sequence of <<key, value>> pairs of the tree rooted at n.
InOrder(n) ==
    IF is_empty(n) THEN <<>>
    ELSE InOrder(Get(n.left)) \o << <<Get(n.key), n.value>> >> \o InOrder(Get(n.right))

\* The in-order key sequence, the stored keys, the stored pairs.
KeysInOrder(n) == [i \in 1..Len(InOrder(n)) |-> InOrder(n)[i][1]]
KeySet(n) == {InOrder(n)[i][1] : i \in 1..Len(InOrder(n))}
PairSet(n) == {InOrder(n)[i] : i \in 1..Len(InOrder(n))}

\* s is strictly increasing under the comparator.
StrictlyIncreasing(s) ==
    \A i \in 1..Len(s) : \A j \in 1..Len(s) :
        i < j => compare(AsItem(s[i]), s[j]) = BEFORE

\* The pairs of s whose key is not the given key, in the order of s.
Without(s, key) == SelectSeq(s, LAMBDA p : p[1] # key)

RECURSIVE LevelInvariant(_)
\* The AA-tree level rules below n; an empty node is exactly Node()'s state.
LevelInvariant(n) ==
    IF n.level = 0
    THEN n = EmptyNode
    ELSE /\ n.level >= 1
         /\ n.key # None /\ n.left # None /\ n.right # None
         /\ Get(n.left).level = n.level - 1
         /\ Get(n.right).level \in {n.level - 1, n.level}
         /\ ~is_empty(Get(n.right)) => Get(Get(n.right).right).level < n.level
         /\ LevelInvariant(Get(n.left))
         /\ LevelInvariant(Get(n.right))

\* Some stored key of n compares MATCH with the key.
Holds(n, key) == \E k \in KeySet(n) : compare(AsItem(key), k) = MATCH

\* ---------------------------------------------------------------- claims

\* C1: after every insert, update, delete and pop_first, from the empty tree
\* on, every non-empty node has level(left) = level - 1, level(right) in
\* {level - 1, level} and level(right.right) < level, and every empty node
\* has level 0 (and no key, value or children).
C1_LevelInvariant == LevelInvariant(root)

\* C1 witness: a delete took a key out of a level-3 tree, the root came down
\* to level 2 and its right child had to be pulled down with it.
C1_Witness ==
    /\ wrapper = "BinaryTree"
    /\ call.op = "delete" /\ call.ret = TRUE
    /\ before.level = 3 /\ root.level = 2
    /\ Get(root.right).level = 2

\* C2: after any sequence of insert, delete and pop_first calls the in-order
\* traversal is strictly increasing under the comparator and lists exactly the
\* keys of the reference set; Scenario A (insert 5,3,8,1,4) gives 1,3,4,5,8.
C2_InOrderSorted ==
    /\ StrictlyIncreasing(KeysInOrder(root))
    /\ KeySet(root) = DOMAIN ref
    /\ stepsA = Len(ScenarioA) => KeysInOrder(root) = <<1, 3, 4, 5, 8>>

\* C2 witness: Scenario A has just been completed.
C2_Witness ==
    /\ stepsA = Len(ScenarioA)
    /\ call.op = "insert" /\ call.key = 4
    /\ KeysInOrder(root) = <<1, 3, 4, 5, 8>>

\* C3: insert returns true exactly when a matching key was already stored,
\* and then keys, values, levels and shape are unchanged; it returns false
\* exactly when the key was absent, and then the key is stored with the given
\* value (next to all the pairs stored before).
C3_InsertNoOverwrite ==
    call.op = "insert" =>
        /\ call.raises = None
        /\ call.ret = Holds(before, call.key)
        /\ call.ret = TRUE => root = before
        /\ call.ret = FALSE =>
               PairSet(root) = PairSet(before) \cup {<<call.key, call.value>>}

\* C3 witness: an insert of a stored key with another value than the stored
\* one, below the root of a tree of three keys.
C3_Witness ==
    /\ wrapper = "BinaryTreeDict"
    /\ call.op = "insert" /\ call.ret = TRUE
    /\ Len(InOrder(before)) = 3
    /\ call.key # Get(before.key)
    /\ <<call.key, call.value>> \notin PairSet(before)

\* C4: delete of a stored key returns (true, the value stored with the key)
\* and removes exactly that key: the in-order sequence of pairs is the
\* previous one without the key, so every other key keeps its own value, and
\* the level invariants hold.  Deleting the root key of a 3-key tree leaves
\* exactly the other 2 keys in order (Scenario D).
C4_DeleteStored ==
    (call.op = "delete" /\ Holds(before, call.key)) =>
        /\ call.raises = None
        /\ IF wrapper = "BinaryTreeDict"
           THEN \E i \in 1..Len(InOrder(before)) :
                    /\ InOrder(before)[i][1] = call.key
                    /\ call.ret = <<TRUE, InOrder(before)[i][2]>>
           ELSE call.ret = TRUE
        /\ InOrder(root) = Without(InOrder(before), call.key)
        /\ LevelInvariant(root)

\* C4 witness: Scenario D on a BinaryTreeDict whose keys carry different
\* values: the root key of a 3-key tree is deleted.
C4_Witness ==
    /\ wrapper = "BinaryTreeDict"
    /\ call.op = "delete" /\ call.ret[1] = TRUE
    /\ Len(InOrder(before)) = 3
    /\ call.key = Get(before.key)
    /\ Len(InOrder(root)) = 2
    /\ InOrder(root)[1][2] # InOrder(root)[2][2]

\* C5: delete of a key that is not stored (also on the empty tree) raises
\* nothing, returns found = false with no value, and leaves keys, values,
\* levels and shape unchanged.
C5_DeleteAbsent ==
    (call.op = "delete" /\ ~Holds(before, call.key)) =>
        /\ call.raises = None
        /\ call.ret = IF wrapper = "BinaryTreeDict" THEN <<FALSE, None>> ELSE FALSE
        /\ root = before

\* C5 witness: a delete of an absent key that had to descend below the root
\* of a BinaryTreeDict.
C5_Witness ==
    /\ wrapper = "BinaryTreeDict"
    /\ call.op = "delete" /\ call.ret = <<FALSE, None>>
    /\ Len(InOrder(before)) = 2
    /\ root = before

\* C6: insert(k, v) on the empty tree followed by delete(k) restores the
\* empty state: is_empty() is true and the root is an empty node again
\* (level 0, no key, no value, no children).
C6_InsertDeleteRestoresEmpty ==
    [][(/\ call.op = "insert" /\ before = EmptyNode
        /\ call'.op = "delete" /\ call'.key = call.key)
       => (BinaryTree_is_empty(root') /\ root' = EmptyNode)]_vars

\* C6 witness: the only key of a BinaryTreeDict has just been deleted.
C6_Witness ==
    /\ wrapper = "BinaryTreeDict"
    /\ call.op = "delete" /\ call.ret[1] = TRUE
    /\ Len(InOrder(before)) = 1
    /\ root = EmptyNode

\* The greatest stored key strictly before the item, the least strictly after.
TightestBefore(n, item) ==
    LET s == {k \in KeySet(n) : compare(item, k) = AFTER}
    IN  IF s = {} THEN None ELSE Some(CHOOSE k \in s : \A j \in s : j <= k)
TightestAfter(n, item) ==
    LET s == {k \in KeySet(n) : compare(item, k) = BEFORE}
    IN  IF s = {} THEN None ELSE Some(CHOOSE k \in s : \A j \in s : k <= j)

\* C7: search_predecessor(item) returns none iff no stored key is strictly
\* before the item and else the greatest such key; search_successor(item)
\* returns none iff no stored key is strictly after the item and else the
\* least such key.  Checked on the calls made on a BinaryTree and on
\* Node.search_predecessor / Node.search_successor for every tree and item.
C7_Neighbours ==
    /\ (wrapper = "BinaryTree" /\ call.op = "search_predecessor") =>
           call.raises = None /\ call.ret = TightestBefore(root, call.item)
    /\ (wrapper = "BinaryTree" /\ call.op = "search_successor") =>
           call.raises = None /\ call.ret = TightestAfter(root, call.item)
    /\ \A item \in Items :
           /\ Node_search_predecessor(root, item, None) = TightestBefore(root, item)
           /\ Node_search_successor(root, item, None) = TightestAfter(root, item)

\* C7 witness: a predecessor query with a range item that matches the root
\* key of a level-3 tree; the answer lies in the left subtree.
C7_Witness ==
    /\ wrapper = "BinaryTree"
    /\ call.op = "search_predecessor"
    /\ root.level = 3
    /\ compare(call.item, Get(root.key)) = MATCH
    /\ call.item[1] < call.item[2]
    /\ call.ret # None
    /\ Get(call.ret) # Get(Get(root.left).key)

\* C8: BinaryTreeDict offers the same two neighbour queries as BinaryTree:
\* its search_predecessor returns the greatest stored key strictly before the
\* item (or none), a search_successor returning the least stored key strictly
\* after the item (or none) exists on it, and both agree with BinaryTree on
\* the same key set.
C8_DictNeighbours ==
    /\ (wrapper = "BinaryTreeDict" /\ call.op = "search_predecessor") =>
           /\ call.raises = None
           /\ call.ret = TightestBefore(root, call.item)
           /\ call.ret = BinaryTree_search_predecessor(root, call.item).ret
    /\ (wrapper = "BinaryTreeDict" /\ call.op = "search_successor") =>
           /\ call.raises = None
           /\ call.ret = TightestAfter(root, call.item)
           /\ call.ret = BinaryTree_search_successor(root, call.item).ret

\* C9: pop_first on a non-empty tree returns the minimum key under the
\* comparator (with its value for BinaryTreeDict), removes exactly that key
\* and keeps the level invariants; on an empty tree it returns none without
\* raising and the tree stays empty.
C9_PopFirst ==
    call.op = "pop_first" =>
        /\ call.raises = None
        /\ IF is_empty(before)
           THEN call.ret = None /\ root = before /\ root = EmptyNode
           ELSE /\ call.ret = Some(IF wrapper = "BinaryTreeDict"
                                   THEN InOrder(before)[1]
                                   ELSE InOrder(before)[1][1])
                /\ \A k \in KeySet(before) :
                       compare(AsItem(InOrder(before)[1][1]), k) \in {BEFORE, MATCH}
                /\ InOrder(root) = Tail(InOrder(before))
                /\ LevelInvariant(root)

\* C9 witness: pop_first on a BinaryTreeDict of three keys whose minimum is
\* not at the root.
C9_Witness ==
    /\ wrapper = "BinaryTreeDict"
    /\ call.op = "pop_first" /\ call.ret # None
    /\ Len(InOrder(before)) = 3
    /\ Get(call.ret)[1] # Get(before.key)
    /\ Len(InOrder(root)) = 2

\* C10: search_matching(item) returns exactly the stored keys that compare
\* MATCH with the item, in in-order order, and the empty list when there is
\* none; also for an item of another type than the keys that several stored
\* keys (a contiguous in-order range) match.
C10_SearchMatching ==
    call.op = "search_matching" =>
        /\ call.raises = None
        /\ call.ret = SelectSeq(KeysInOrder(root),
                                LAMBDA k : compare(call.item, k) = MATCH)

\* C10 witness: a range item matches two stored keys that sit in different
\* subtrees of the node where the search first matches.
C10_Witness ==
    /\ call.op = "search_matching"
    /\ call.item[1] < call.item[2]
    /\ Len(call.ret) = 2
    /\ root.level >= 2
    /\ call.ret[2] = Get(root.key)
    /\ call.ret[1] # call.ret[2]

RECURSIVE Shape(_)
\* The tree below n with its values erased: keys, levels and shape only.
Shape(n) ==
    IF is_empty(n) THEN n
    ELSE [n EXCEPT !.value = None,
                   !.left = Some(Shape(Get(n.left))),
                   !.right = Some(Shape(Get(n.right)))]

\* The value stored with the key below n (the key is stored there).
ValueOf(n, key) == (CHOOSE p \in PairSet(n) : p[1] = key)[2]

\* C11: update(key, updater) of an absent key returns false and leaves the
\* tree that insert(key, updater(None)) would leave (same rebalancing); of a
\* stored key it returns true, the key's value becomes updater(old value),
\* every other pair stays, and keys, levels and shape are unchanged.
C11_Update ==
    call.op = "update" =>
        /\ call.raises = None
        /\ call.ret = (call.key \in KeySet(before))
        /\ call.ret = FALSE =>
               root = Node_insert(before, call.key, call.value_updater[None]).node
        /\ call.ret = TRUE =>
               /\ Shape(root) = Shape(before)
               /\ PairSet(root) =
                      {p \in PairSet(before) : p[1] # call.key} \cup
                      {<<call.key, call.value_updater[ValueOf(before, call.key)]>>}

\* C11 witness: an update changed the value of a key stored below the root
\* of a tree of three keys.
C11_Witness ==
    /\ call.op = "update" /\ call.ret = TRUE
    /\ Len(InOrder(before)) = 3
    /\ call.key # Get(before.key)
    /\ ValueOf(root, call.key) # ValueOf(before, call.key)

\* ------------------------------------------ what the polygon claims read

\* The last polygon call was this operation and raised nothing / raised.
Accepted(op) == pcall.op = op /\ pcall.raises = None
Rejected(op) == pcall.op = op /\ pcall.raises # None

\* The points of a sequence of vertices of p.
PointsOf(p, vs) == [i \in 1..Len(vs) |-> p.vertices[vs[i]].point]

\* The turn at the first vertex of the traversal vs (at least 3 vertices),
\* from its last vertex to its second, in the code's convention.
TurnAtFirst(p, vs) ==
    Point_orientation(p.vertices[vs[1]].point, p.vertices[vs[Len(vs)]].point,
                      p.vertices[vs[2]].point)

\* C12: after every successful add_vertex that leaves at least 3 vertices,
\* is_simple() without a candidate point returns true.
C12_SimpleAfterAddVertex ==
    (Accepted("add_vertex") /\ polygon.number_of_vertices >= 3) =>
        is_simple(polygon, None)

\* C13: after every successful add_vertex that leaves at least 3 vertices,
\* vertices_acw() starts at the topmost vertex, lists every vertex, and turns
\* strictly left (Orientation.RIGHT) at the topmost vertex; the four calls of
\* Scenario B succeed and end that way.
C13_Counterclockwise ==
    /\ (Accepted("add_vertex") /\ polygon.number_of_vertices >= 3) =>
           /\ Len(vertices_acw(polygon)) = polygon.number_of_vertices
           /\ vertices_acw(polygon)[1] = Get(polygon.topmost_vertex)
           /\ TurnAtFirst(polygon, vertices_acw(polygon)) = "RIGHT"
    /\ (/\ pcall.op = "add_vertex"
        /\ Len(pbefore.vertices) < Len(ScenarioB)
        /\ PointsAdded(pbefore) = SubSeq(ScenarioB, 1, Len(pbefore.vertices))
        /\ pcall.point = ScenarioB[Len(pbefore.vertices) + 1]) =>
           pcall.raises = None

\* C14 as stated: add_vertex((2,2)) on the square of Scenario B (four
\* add_vertex calls and no other) is rejected and the vertex count stays 4.
C14_CentreRejected ==
    (/\ pcall.op = "add_vertex" /\ pcall.point = <<2, 2>>
     /\ PointsAdded(pbefore) = ScenarioB /\ diagonals = <<>>) =>
        /\ pcall.raises # None
        /\ polygon.number_of_vertices = 4

\* C14 amended: add_vertex((2,2)) on the square of Scenario B is accepted:
\* the vertex count becomes 5, the boundary is the square's followed by
\* (2,2), and is_simple() is true of it.
C14_CentreAccepted ==
    (/\ pcall.op = "add_vertex" /\ pcall.point = <<2, 2>>
     /\ PointsAdded(pbefore) = ScenarioB /\ diagonals = <<>>) =>
        /\ pcall.raises = None
        /\ polygon.number_of_vertices = 5
        /\ PointsOf(polygon, vertices(polygon)) = Append(ScenarioB, <<2, 2>>)
        /\ is_simple(polygon, None)

\* C14 witness: Scenario B, then add_vertex((2,2)).
C14_Witness ==
    /\ pcall.op = "add_vertex" /\ pcall.point = <<2, 2>>
    /\ PointsAdded(pbefore) = ScenarioB /\ diagonals = <<>>
    /\ PointsAdded(polygon) = Append(ScenarioB, <<2, 2>>)

\* C15: a rejected add_vertex leaves the polygon as it was: the vertex
\* count, the topmost vertex, the closing edge, both flags, every vertex's
\* incident edge and every half-edge's origin, twin, prev and next; no object
\* was made.
C15_RejectedAddVertex ==
    Rejected("add_vertex") => polygon = pbefore

\* C15 witness: a point rejected by the simplicity check of a polygon whose
\* orientation had been reversed.
C15_Witness ==
    /\ Rejected("add_vertex") /\ pcall.raises = Some("ValueError")
    /\ pbefore.number_of_vertices = 4
    /\ pbefore.is_reversed

\* The add_diagonal calls that had succeeded when the last call started.
DiagonalsBefore ==
    IF Accepted("add_diagonal") THEN Len(diagonals) - 1 ELSE Len(diagonals)

\* C16: once an add_diagonal has succeeded, every add_vertex raises, the
\* vertex count stays, and has_diagonals() is true after every call.
C16_FrozenByDiagonal ==
    /\ Len(diagonals) >= 1 => has_diagonals(polygon)
    /\ DiagonalsBefore >= 1 =>
           /\ pcall.op = "add_vertex" => pcall.raises = Some("RuntimeError")
           /\ len(polygon) = len(pbefore)
           /\ Len(polygon.vertices) = Len(pbefore.vertices)

\* C16 witness: add_vertex is rejected after two diagonals were added.
C16_Witness ==
    /\ Rejected("add_vertex")
    /\ Len(diagonals) = 2
    /\ has_diagonals(polygon)

\* The half-edge e is the incident edge of its origin.
Incident(p, e) == p.vertices[p.edges[e].origin].edge = e

\* C17: a successful add_diagonal(v.edge, w.edge), after any number of
\* diagonals added that way, leaves vertices() and vertices_acw() as they
\* were, whether or not the orientation was reversed.
C17_DiagonalKeepsTraversals ==
    (/\ Accepted("add_diagonal")
     /\ \A i \in 1..Len(diagonals) :
            Incident(pbefore, diagonals[i][1]) /\ Incident(pbefore, diagonals[i][2])) =>
        /\ vertices(polygon) = vertices(pbefore)
        /\ vertices_acw(polygon) = vertices_acw(pbefore)

\* C17 witness: the second diagonal between incident edges of a pentagon
\* whose orientation was reversed.
C17_Witness ==
    /\ Accepted("add_diagonal")
    /\ Len(diagonals) = 2
    /\ \A i \in 1..2 :
           Incident(pbefore, diagonals[i][1]) /\ Incident(pbefore, diagonals[i][2])
    /\ polygon.is_reversed
    /\ polygon.number_of_vertices = 5

\* Vertices v and w of p follow each other on the boundary, which runs
\* through the vertices in the order they were added and back to the first.
AdjacentOnBoundary(p, v, w) ==
    /\ v # w
    /\ \/ w = (v % Len(p.vertices)) + 1
       \/ v = (w % Len(p.vertices)) + 1

\* C18: add_diagonal goes through only if the origins of its two edges are
\* different vertices that are not adjacent on the boundary, so it is
\* rejected when they are the same or adjacent; a rejected call makes no
\* object, changes no link and leaves has_diagonals() as it was.
C18_DiagonalRejected ==
    /\ Accepted("add_diagonal") =>
           ~AdjacentOnBoundary(pbefore,
                pbefore.edges[Get(pcall.connection_edges)[1]].origin,
                pbefore.edges[Get(pcall.connection_edges)[2]].origin)
           /\ pbefore.edges[Get(pcall.connection_edges)[1]].origin #
                  pbefore.edges[Get(pcall.connection_edges)[2]].origin
    /\ Rejected("add_diagonal") =>
           /\ polygon = pbefore
           /\ has_diagonals(polygon) = has_diagonals(pbefore)

\* C18 witness: add_diagonal is rejected on a pentagon that has a diagonal.
C18_Witness ==
    /\ Rejected("add_diagonal")
    /\ pbefore.number_of_vertices = 5
    /\ has_diagonals(pbefore)
    /\ polygon = pbefore

RECURSIVE NextWalk(_, _, _)
\* The half-edges e, e.next, e.next.next, ..: k of them.
NextWalk(p, e, k) ==
    IF k = 0 THEN <<>> ELSE <<e>> \o NextWalk(p, p.edges[e].next, k - 1)

\* The n half-edges from e on along next close after exactly n steps, with
\* every vertex once as an origin and each edge ending where the next starts.
NextCycle(p, e, n) ==
    /\ p.edges[NextWalk(p, e, n)[n]].next = e
    /\ {p.edges[NextWalk(p, e, n)[i]].origin : i \in 1..n} = 1..n
    /\ \A i \in 1..n :
           p.edges[p.edges[NextWalk(p, e, n)[i]].next].origin =
               destination(p, NextWalk(p, e, n)[i])

\* C20: after every successful add_vertex that leaves n >= 3 vertices the
\* boundary is closed: from any vertex's incident half-edge next returns
\* after exactly n steps through the incident half-edges of all n vertices;
\* the twins form a next-cycle of length n too, run in the opposite direction
\* (the twin of e.next is followed by the twin of e).
C20_BoundaryCycles ==
    (Accepted("add_vertex") /\ polygon.number_of_vertices >= 3) =>
        /\ Len(polygon.vertices) = polygon.number_of_vertices
        /\ \A v \in 1..Len(polygon.vertices) :
            /\ NextCycle(polygon, polygon.vertices[v].edge, Len(polygon.vertices))
            /\ NextCycle(polygon, polygon.edges[polygon.vertices[v].edge].twin,
                         Len(polygon.vertices))
            /\ {NextWalk(polygon, polygon.vertices[v].edge, Len(polygon.vertices))[i] :
                    i \in 1..Len(polygon.vertices)}
                   = {polygon.vertices[w].edge : w \in 1..Len(polygon.vertices)}
            /\ polygon.edges[polygon.edges[polygon.edges[
                   polygon.vertices[v].edge].next].twin].next
                   = polygon.edges[polygon.vertices[v].edge].twin

\* C20 witness: the call that accepted the third vertex has closed the
\* boundary and reversed the orientation.
C20_Witness ==
    /\ Accepted("add_vertex")
    /\ polygon.number_of_vertices = 3
    /\ pbefore.number_of_vertices = 2
    /\ polygon.is_reversed
    /\ NextCycle(polygon, Get(polygon.closing_edge), 3)

\* The point of vertex v of p.
PointOf(p, v) == p.vertices[v].point

\* C21: after every successful add_vertex, topmost_vertex is the vertex with
\* the greatest y among all vertices of the polygon, and among those with
\* that y the one with the smallest x.
C21_Topmost ==
    Accepted("add_vertex") =>
        /\ polygon.topmost_vertex # None
        /\ \A v \in 1..Len(polygon.vertices) :
               \/ v = Get(polygon.topmost_vertex)
               \/ PointOf(polygon, v)[2] < PointOf(polygon, Get(polygon.topmost_vertex))[2]
               \/ /\ PointOf(polygon, v)[2] = PointOf(polygon, Get(polygon.topmost_vertex))[2]
                  /\ PointOf(polygon, v)[1] > PointOf(polygon, Get(polygon.topmost_vertex))[1]

\* C21 witness: the accepted vertex is as high as the topmost vertex was and
\* left of it, and is the topmost vertex now.
C21_Witness ==
    /\ Accepted("add_vertex")
    /\ pbefore.number_of_vertices >= 3
    /\ pcall.point[2] = PointOf(pbefore, Get(pbefore.topmost_vertex))[2]
    /\ pcall.point[1] < PointOf(pbefore, Get(pbefore.topmost_vertex))[1]
    /\ polygon.topmost_vertex = Some(Len(polygon.vertices))

\* Reference geometry, in exact integers: twice the signed area of a, b, c.
Turn(a, b, c) == perp_dot(Point_sub(b, a), Point_sub(c, a))

\* q lies on the closed segment from a to b.
OnSegment(a, b, q) ==
    /\ Turn(a, b, q) = 0
    /\ Min2(a[1], b[1]) <= q[1] /\ q[1] <= Max2(a[1], b[1])
    /\ Min2(a[2], b[2]) <= q[2] /\ q[2] <= Max2(a[2], b[2])

\* The closed segments a-b and c-d have a point in common.
SegmentsTouch(a, b, c, d) ==
    \/ /\ Turn(c, d, a) * Turn(c, d, b) < 0
       /\ Turn(a, b, c) * Turn(a, b, d) < 0
    \/ OnSegment(c, d, a) \/ OnSegment(c, d, b)
    \/ OnSegment(a, b, c) \/ OnSegment(a, b, d)

\* The segments a-b and c-d lie on one line and have more than one point in
\* common.
SegmentsOverlap(a, b, c, d) ==
    /\ Turn(a, b, c) = 0 /\ Turn(a, b, d) = 0
    /\ \/ {a, b} = {c, d}
       \/ (OnSegment(a, b, c) /\ c \notin {a, b})
       \/ (OnSegment(a, b, d) /\ d \notin {a, b})
       \/ (OnSegment(c, d, a) /\ a \notin {c, d})
       \/ (OnSegment(c, d, b) /\ b \notin {c, d})

\* The edge from a to b, one of whose ends is the end of path edge
\* adjacent (0 if there is none), meets no other edge of the path through
\* points and has only that end in common with the adjacent one.
EdgeClear(points, a, b, adjacent) ==
    /\ a # b
    /\ \A i \in 1..(Len(points) - 1) :
           IF i = adjacent
           THEN ~SegmentsOverlap(a, b, points[i], points[i + 1])
           ELSE ~SegmentsTouch(a, b, points[i], points[i + 1])

\* C22: is_simple(candidate) on a polygon of at least 2 vertices returns
\* true only if neither the edge from the last vertex to the candidate nor
\* the closing edge from the candidate to the first vertex meets an edge of
\* the path it is not adjacent to or overlaps the one it is adjacent to.
C22_NewEdgesTested ==
    \A point \in Points :
        (/\ polygon.number_of_vertices >= 2 /\ diagonals = <<>>
         /\ is_simple(polygon, Some(point))) =>
            /\ EdgeClear(PointsAdded(polygon),
                         PointsAdded(polygon)[Len(polygon.vertices)], point,
                         Len(polygon.vertices) - 1)
            /\ EdgeClear(PointsAdded(polygon), point, PointsAdded(polygon)[1], 1)

RECURSIVE LengthFrom(_, _)
\* The length of the closed boundary through points from its k-th edge on,
\* k counted from 0.
LengthFrom(points, k) ==
    IF k >= Len(points) THEN [whole |-> 0, root2 |-> 0]
    ELSE Plus(distance(points[k + 1], points[((k + 1) % Len(points)) + 1]),
              LengthFrom(points, k + 1))

\* The total closed-boundary length.
TotalLength(points) == LengthFrom(points, 0)

\* C23: every reversal of a sub-path makes the total closed-boundary length
\* strictly smaller, and the 2-opt loop of try_from_unordered_points ends.
C23_TwoOptTerminates ==
    /\ [][reversals' # reversals => Less(TotalLength(path'), TotalLength(path))]_vars
    /\ <>(pc \notin {"while", "for"})

\* C23 witness: the loop has ended after it reversed three sub-paths of a
\* list of five points.
C23_Witness ==
    /\ pc = "construct"
    /\ reversals = 3
    /\ Len(path) = 5

\* Some point stands at two places of the list.
HasRepeatedPoint(points) ==
    \E a \in 1..Len(points) : \E b \in 1..Len(points) :
        a # b /\ points[a] = points[b]

\* How often point q stands in the list.
Occurrences(points, q) == Cardinality({a \in 1..Len(points) : points[a] = q})

\* C24 as stated: try_from_unordered_points never raises.
C24_NeverRaises == pc # "raised"

\* C24 amended: try_from_unordered_points ends in the ValueError of the
\* add_vertex that rejected a point of the reordered path, and does so for
\* every list with a repeated point; when it returns, the vertices of the
\* polygon are the reordered path, which holds the points of the list as
\* often as the list does.
C24_RaisesWhenVertexRejected ==
    /\ pc = "raised" => pcall.raises = Some("ValueError")
    /\ (pc \in {"returned", "raised"} /\ HasRepeatedPoint(unordered)) =>
           pc = "raised"
    /\ pc = "returned" =>
           /\ PointsOf(polygon, vertices(polygon)) = path
           /\ len(polygon) = Len(unordered)
           /\ \A q \in Points : Occurrences(path, q) = Occurrences(unordered, q)

\* C24 witness: the call has raised on a list of points that are all
\* different.
C24_Witness ==
    /\ pc = "raised"
    /\ ~HasRepeatedPoint(unordered)
    /\ Len(unordered) >= 3

RECURSIVE Replay(_, _)
\* The events applied in order to the list points; an event that raises
\* ends it.
Replay(events, points) ==
    IF events = <<>> THEN Left(points)
    ELSE IF execute_on(Head(events), points).raises # None
    THEN execute_on(Head(events), points)
    ELSE Replay(Tail(events), execute_on(Head(events), points).value)

\* The events of the log that are of this class.
EventsOfType(s, type) ==
    {k \in 1..Len(s.animation_events) : s.animation_events[k].type = type}

\* C25: after any sequence of append, pop, clear, animate, reset_animations
\* and deletion at a negative index, the recorded animation events applied
\* in order to an empty list give exactly the current points.
C25_ReplayGivesPoints ==
    Replay(sequence.animation_events, <<>>) = Left(sequence.points)

\* C25 witness: a deletion at key -2 has been accepted; the log holds a
\* PopEvent too and the sequence still has a point.
C25_Witness ==
    /\ scall.op = "__delitem__" /\ scall.raises = None
    /\ scall.args[1].value = -2
    /\ EventsOfType(sequence, "PopEvent") # {}
    /\ sequence.points # <<>>

\* C26: after any sequence of add_vertex calls, vertices() yields the
\* vertices in the order they were added, len(polygon) of them and each
\* once, however often the orientation was reversed; the closing edge runs
\* from the vertex added last to the vertex added first.
C26_VerticesInOrder ==
    diagonals = <<>> =>
        /\ vertices(polygon) = [v \in 1..len(polygon) |-> v]
        /\ Len(polygon.vertices) = len(polygon)
        /\ len(polygon) >= 1 =>
               /\ polygon.edges[Get(polygon.closing_edge)].origin = len(polygon)
               /\ destination(polygon, Get(polygon.closing_edge)) = 1

\* C26 witness: the fifth vertex has been accepted and the orientation,
\* reversed before, has been reversed back.
C26_Witness ==
    /\ Accepted("add_vertex")
    /\ len(polygon) = 5
    /\ pbefore.is_reversed /\ ~polygon.is_reversed
    /\ vertices(polygon) = <<1, 2, 3, 4, 5>>

\* C27: no two vertices of a polygon share a point: add_vertex raises
\* ValueError, and changes nothing, for a point that is the point of the
\* sole vertex or of any vertex of a polygon of 2 or more vertices.
C27_DistinctPoints ==
    /\ \A v \in 1..Len(polygon.vertices) : \A w \in 1..Len(polygon.vertices) :
           v # w => PointOf(polygon, v) # PointOf(polygon, w)
    /\ (/\ pcall.op = "add_vertex"
        /\ ~has_diagonals(pbefore)
        /\ \E v \in 1..Len(pbefore.vertices) : PointOf(pbefore, v) = pcall.point) =>
           /\ pcall.raises = Some("ValueError")
           /\ polygon = pbefore

\* C27 witness: add_vertex has rejected the point of the second of four
\* vertices.
C27_Witness ==
    /\ Rejected("add_vertex")
    /\ len(pbefore) = 4
    /\ ~has_diagonals(pbefore)
    /\ pcall.point = PointOf(pbefore, 2)
    /\ polygon = pbefore

\* The open path through points is a simple polyline: its edges have
\* different ends, consecutive edges have only their common end in common,
\* and other edges have no point in common.
SimplePolyline(points) ==
    /\ \A a \in 1..(Len(points) - 1) : points[a] # points[a + 1]
    /\ \A a \in 1..(Len(points) - 1) : \A b \in (a + 1)..(Len(points) - 1) :
           IF b = a + 1
           THEN ~SegmentsOverlap(points[a], points[a + 1], points[b], points[b + 1])
           ELSE ~SegmentsTouch(points[a], points[a + 1], points[b], points[b + 1])

\* C28: after any sequence of add_vertex calls, the open path through the
\* vertices in the order they were added (the boundary without the closing
\* edge) is a simple polyline.
C28_OpenPathSimple == SimplePolyline(PointsAdded(polygon))

\* C28 witness: the fifth vertex has been accepted; the open path is a
\* simple polyline, and closed by the closing edge it is not simple.
C28_Witness ==
    /\ Accepted("add_vertex")
    /\ len(polygon) = 5
    /\ ~is_simple(polygon, None)
    /\ SimplePolyline(PointsAdded(polygon))

RECURSIVE NextOrbitFrom(_, _, _)
\* The half-edges e, e.next, e.next.next, .. until one comes again, added
\* to those of S.
NextOrbitFrom(p, e, S) ==
    IF e \in S THEN S ELSE NextOrbitFrom(p, p.edges[e].next, S \cup {e})

\* The next-cycle of the half-edge e.
NextOrbit(p, e) == NextOrbitFrom(p, e, {})

\* The connection edges of the accepted add_diagonal call.
Edge1 == Get(pcall.connection_edges)[1]
Edge2 == Get(pcall.connection_edges)[2]

\* C29: a successful add_diagonal(edge1, edge2) returns a half-edge d from
\* edge1.origin to edge2.origin whose twin runs the other way, with
\* d.next = edge2, d.twin.next = edge1, d.prev = the former edge1.prev and
\* d.twin.prev = the former edge2.prev; if edge1 and edge2 were on one
\* next-cycle of length m, d and d.twin are on two next-cycles whose lengths
\* add up to m + 2; no other half-edge's twin and no vertex's incident edge
\* has changed.
C29_DiagonalLinks ==
    Accepted("add_diagonal") =>
        LET d == Get(pcall.ret)
            t == polygon.edges[Get(pcall.ret)].twin
        IN  /\ d \notin 1..Len(pbefore.edges) /\ t \notin 1..Len(pbefore.edges)
            /\ d # t
            /\ polygon.edges[t].twin = d
            /\ polygon.edges[d].origin = pbefore.edges[Edge1].origin
            /\ polygon.edges[t].origin = pbefore.edges[Edge2].origin
            /\ destination(polygon, d) = pbefore.edges[Edge2].origin
            /\ destination(polygon, t) = pbefore.edges[Edge1].origin
            /\ polygon.edges[d].next = Edge2
            /\ polygon.edges[t].next = Edge1
            /\ polygon.edges[d].prev = pbefore.edges[Edge1].prev
            /\ polygon.edges[t].prev = pbefore.edges[Edge2].prev
            /\ Edge2 \in NextOrbit(pbefore, Edge1) =>
                   /\ NextOrbit(polygon, d) \cap NextOrbit(polygon, t) = {}
                   /\ Cardinality(NextOrbit(polygon, d)) + Cardinality(NextOrbit(polygon, t))
                          = Cardinality(NextOrbit(pbefore, Edge1)) + 2
            /\ \A e \in 1..Len(pbefore.edges) :
                   /\ polygon.edges[e].twin = pbefore.edges[e].twin
                   /\ polygon.edges[e].origin = pbefore.edges[e].origin
            /\ polygon.vertices = pbefore.vertices

\* C29 witness: the second diagonal, between two edges of a next-cycle of
\* length 4 that the first diagonal had made, leaves two cycles of length 3.
C29_Witness ==
    /\ Accepted("add_diagonal")
    /\ Len(diagonals) = 2
    /\ Edge2 \in NextOrbit(pbefore, Edge1)
    /\ Cardinality(NextOrbit(pbefore, Edge1)) = 4
    /\ Cardinality(NextOrbit(polygon, Get(pcall.ret))) = 3
    /\ Cardinality(NextOrbit(polygon, polygon.edges[Get(pcall.ret)].twin)) = 3

\* C30: has_diagonals() is true only of a polygon with at least 4 vertices:
\* on an empty polygon and on one of 1, 2 or 3 vertices every add_diagonal
\* call on half-edges of the polygon raises ValueError and changes nothing,
\* and has_diagonals() becomes true only by an add_diagonal call on a polygon
\* of at least 3 vertices without diagonals.
C30_DiagonalsNeedFourVertices ==
    /\ has_diagonals(polygon) => len(polygon) >= 4
    /\ (pcall.op = "add_diagonal" /\ len(pbefore) <= 3) =>
           /\ pcall.raises = Some("ValueError")
           /\ polygon = pbefore
    /\ (has_diagonals(polygon) /\ ~has_diagonals(pbefore)) =>
           /\ Accepted("add_diagonal")
           /\ len(pbefore) >= 3

\* C30 witness: add_diagonal has been rejected on a polygon of 3 vertices.
C30_Witness ==
    /\ Rejected("add_diagonal")
    /\ len(pbefore) = 3
    /\ ~has_diagonals(polygon)

\* ------------------------------------------- what the rotation claims read

RECURSIVE CountLevel(_, _)
\* How many nodes of the tree rooted at n have the level l.
CountLevel(n, l) ==
    IF is_empty(n) THEN 0
    ELSE (IF n.level = l THEN 1 ELSE 0)
         + CountLevel(Get(n.left), l) + CountLevel(Get(n.right), l)

\* The levels a node of a tree rooted at a node of NodesAt can have.
RotLevels == 1..(MaxLevel + 3)

\* C31: a single _skew and a single _split of a non-empty node keep the
\* in-order sequence of (key, value) pairs of its subtree.  _skew leaves
\* the level of the node and the levels in its subtree as they are; a
\* _split that rotates raises the level of the node it is applied to by
\* exactly one and no other level, one that does not rotate changes nothing.
C31_RotationsKeepOrder ==
    /\ call.op \in {"_skew", "_split"} =>
           /\ ~is_empty(before)
           /\ InOrder(root) = InOrder(before)
    /\ call.op = "_skew" =>
           /\ root.level = before.level
           /\ \A l \in RotLevels : CountLevel(root, l) = CountLevel(before, l)
    /\ call.op = "_split" =>
           \/ root = before
           \/ /\ root.level = before.level + 1
              /\ \A l \in RotLevels :
                     CountLevel(root, l) =
                         CountLevel(before, l)
                         - (IF l = before.level THEN 1 ELSE 0)
                         + (IF l = before.level + 1 THEN 1 ELSE 0)

\* C31 witness: a _split has rotated a node of five or more nodes whose left
\* child lies a level below it.
C31_Witness ==
    /\ call.op = "_split"
    /\ root # before
    /\ ~is_empty(Get(before.left))
    /\ Get(Get(before.right).right).level = before.level
    /\ Get(before.left).level < before.level
    /\ Len(InOrder(root)) >= 5

\* C36: a PointSequence call that fails leaves the points and the event
\* log as they were.  pop on an empty sequence raises (IndexError), a
\* deletion with a key that is no int or not negative raises (ValueError),
\* a deletion with a negative key beyond the first point raises
\* (IndexError); none of them removes a point or records an event.
C36_FailedCallChangesNothing ==
    /\ scall.op # "init" /\ scall.raises # None => sequence = sbefore
    /\ scall.op = "pop" /\ sbefore.points = <<>> =>
           /\ scall.raises = Some("IndexError")
           /\ sequence = sbefore
    /\ scall.op = "__delitem__" =>
           LET key == scall.args[1]
           IN  /\ (~key.int \/ key.value >= 0) =>
                      /\ scall.raises = Some("ValueError")
                      /\ sequence = sbefore
               /\ (key.int /\ key.value < 0
                      /\ 0 - key.value > Len(sbefore.points)) =>
                      /\ scall.raises = Some("IndexError")
                      /\ sequence = sbefore

\* C36 witness: a deletion at key -3 has failed on a sequence of two points
\* whose log holds three events.
C36_Witness ==
    /\ scall.op = "__delitem__" /\ scall.raises # None
    /\ scall.args[1].int /\ scall.args[1].value = -3
    /\ Len(sbefore.points) = 2
    /\ Len(sbefore.animation_events) = 3

\* C34: for PointSequences a and b built by append, pop, clear, animate and
\* deletion at a negative index, a + b has the points of a followed by the
\* points of b, and its animation events applied in order to an empty list
\* give these points.
C34_SumReplays ==
    (added # None /\ Get(added).raises = None) =>
        /\ Get(added).value.points = sequence.points \o other.points
        /\ Replay(Get(added).value.animation_events, <<>>)
               = Left(sequence.points \o other.points)

\* C38: for every half-edge of the polygon with two different endpoints,
\* upper_and_lower is its origin and destination, the vertex with the
\* higher y first and of two with the same y the one with the lower x; the
\* points of the pair are upper and lower of the LineSegment of the two
\* endpoints, and the twin of the half-edge has the same pair.
C38_UpperAndLower ==
    \A e \in HalfEdges(polygon) :
        polygon.edges[e].origin # destination(polygon, e) =>
            LET pair == upper_and_lower(polygon, e)
                segment == LineSegment(PointOf(polygon, polygon.edges[e].origin),
                                       PointOf(polygon, destination(polygon, e)))
            IN  /\ {pair[1], pair[2]} =
                       {polygon.edges[e].origin, destination(polygon, e)}
                /\ \/ PointOf(polygon, pair[1])[2] > PointOf(polygon, pair[2])[2]
                   \/ /\ PointOf(polygon, pair[1])[2] = PointOf(polygon, pair[2])[2]
                      /\ PointOf(polygon, pair[1])[1] < PointOf(polygon, pair[2])[1]
                /\ PointOf(polygon, pair[1]) = segment.upper
                /\ PointOf(polygon, pair[2]) = segment.lower
                /\ upper_and_lower(polygon, polygon.edges[e].twin) = pair

\* C38 witness: a polygon with a diagonal has a half-edge that runs from
\* right to left at one height, and one that runs upwards: upper_and_lower
\* returns the destination first for both.
C38_Witness ==
    /\ Accepted("add_diagonal")
    /\ \E e \in HalfEdges(polygon) :
           /\ PointOf(polygon, polygon.edges[e].origin)[2]
                  = PointOf(polygon, destination(polygon, e))[2]
           /\ PointOf(polygon, polygon.edges[e].origin)[1]
                  > PointOf(polygon, destination(polygon, e))[1]
           /\ upper_and_lower(polygon, e)[1] = destination(polygon, e)
    /\ \E e \in HalfEdges(polygon) :
           /\ PointOf(polygon, polygon.edges[e].origin)[2]
                  < PointOf(polygon, destination(polygon, e))[2]
           /\ upper_and_lower(polygon, e)[1] = destination(polygon, e)

\* C35: after any sequence of add calls, each with any collection of line
\* segments, the AppendEvents of animation_events() name each stored point
\* exactly once, in the order of points().
C35_EventsListPointsOnce ==
    [k \in 1..Len(intersections.animation_events) |->
        intersections.animation_events[k].point]
    = [k \in 1..Len(intersections.intersections) |->
          intersections.intersections[k].point]

RECURSIVE HullReplay(_, _)
\* The events of a Polygon called in order on the list l; an event that
\* raises ends it.
HullReplay(events, l) ==
    IF events = <<>> THEN Left(l)
    ELSE IF event_call(Head(events), l).raises # None
    THEN event_call(Head(events), l)
    ELSE HullReplay(Tail(events), event_call(Head(events), l).value)

\* C33: after any sequence of append, pop and deletion at a negative index,
\* the events of the convex-hull Polygon called in order on an empty list
\* leave exactly its points.
C33_HullReplayGivesPoints == HullReplay(hull.events, <<>>) = Left(hull.points)

\* C32: the AA-tree of notebooks/modules/data_structures.py and the one of
\* modules/data_structures.py, called with the same insert, delete and
\* pop-minimum calls from empty trees, are the same tree after every call:
\* the same keys, values and levels in the same shape.
C32_SameTree == root = older

\* C32 witness: a delete of a key other than the root's has taken a tree of
\* level 3 to level 2 and rotated another key to the root, in both trees.
C32_Witness ==
    /\ call.op = "delete"
    /\ before.level = 3
    /\ call.key # Get(before.key)
    /\ root.level = 2
    /\ root.key # before.key
    /\ older.level = 2
    /\ older.key = root.key

\* C37: run_algorithm leaves the handle as it was before the call, for each
\* of the three classes: the same instance and the same pending first
\* endpoint cached by LineSegmentSetInstance.add_point, so that the next
\* add_point does what it would have done without the run.
C37_RunRestores ==
    hcall.op = "run_algorithm" =>
        /\ handle = hbefore
        /\ \A point \in Points : add_point(handle, point) = add_point(hbefore, point)

====
